---- MODULE Spec2Model ----
(***************************************************************************)
(* Bathroom renovation pricing engine: the quote pipeline                  *)
(* (pricing_engine.py) and its three rule modules (labor_calc.py,          *)
(* material_db.py, vat_rules.py) plus the transcript parser's              *)
(* post-processing (transcript_parser.py).                                 *)
(*                                                                         *)
(* Units.  Python floats are modelled by exact decimal integers:           *)
(*   money            cents              (22.0 EUR   -> 2200)              *)
(*   unrounded prices hundredths of a cent  (2.8 EUR -> 28000)             *)
(*   quantities       thousandths        (0.25       -> 250)               *)
(*   area, hours      tenths             (4.0 m2     -> 40)                *)
(*   regional, seasonal multipliers  hundredths  (1.45 -> 145)             *)
(*   complexity factors, rush multiplier  tenths (1.3  -> 13)              *)
(*   margins          percent            (0.25       -> 25)                *)
(*   VAT rates        per mille          (0.055      -> 55)                *)
(*   confidence       hundredths         (0.75       -> 75)                *)
(* Products that do not fit a machine integer are carried as little-endian *)
(* decimal digit sequences over a stated number of decimals of the unit    *)
(* (EUR, hours).  round(x, n) rounds to nearest; Python rounds an exact    *)
(* tie to the even neighbour, and a decimal tie that the binary float      *)
(* misses by its representation error to either neighbour: `ties` fixes,   *)
(* for one behaviour, to which neighbour a tie goes.                       *)
(***************************************************************************)
EXTENDS Integers, Sequences, FiniteSets, TLC

VARIABLES
    materials,              \* MaterialDatabase.materials: id -> Material
    regional_multipliers,   \* MaterialDatabase.regional_multipliers
    ties,                   \* "even" | "odd": where a rounding tie falls
    now,                    \* wall clock, whole seconds
    last,                   \* the operation in progress / just returned
    prev,                   \* the operation returned before `last`
    running,                \* thread -> its generate_quote in progress
    loading                 \* the load_from_file in progress

vars ==
    <<materials, regional_multipliers, ties, now, last, prev, running,
      loading>>

-----------------------------------------------------------------------------
(* Bounds of the model *)

\* longest list of requested tasks in a work order
MaxTasks == 2
\* longest list of complexity-factor tags handed to the labor calculator
MaxTags == 2
\* oldest building age (years) tried on the VAT paths
MaxAge == 6
\* last clock tick
MaxNow == 1

-----------------------------------------------------------------------------
(* Exact decimal arithmetic *)

Min(a, b) == IF a < b THEN a ELSE b
Max(a, b) == IF a > b THEN a ELSE b

RECURSIVE Pow10(_)
Pow10(n) == IF n = 0 THEN 1 ELSE 10 * Pow10(n - 1)

\* n >= 0 as little-endian decimal digits
RECURSIVE Digits(_)
Digits(n) == IF n < 10 THEN <<n>> ELSE <<n % 10>> \o Digits(n \div 10)

RECURSIVE Value(_)
Value(ds) == IF ds = <<>> THEN 0 ELSE Head(ds) + 10 * Value(Tail(ds))

RECURSIVE MulCarry(_, _, _)
MulCarry(ds, k, c) ==
    IF ds = <<>> THEN (IF c = 0 THEN <<>> ELSE Digits(c))
    ELSE LET t == Head(ds) * k + c
         IN  <<t % 10>> \o MulCarry(Tail(ds), k, t \div 10)

\* digit sequence times a machine integer 0 <= k <= 2*10^8
Times(ds, k) == MulCarry(ds, k, 0)

RECURSIVE AddCarry(_, _, _)
AddCarry(xs, ys, c) ==
    IF xs = <<>> /\ ys = <<>> THEN (IF c = 0 THEN <<>> ELSE <<c>>)
    ELSE LET x == IF xs = <<>> THEN 0 ELSE Head(xs)
             y == IF ys = <<>> THEN 0 ELSE Head(ys)
             t == x + y + c
         IN  <<t % 10>> \o AddCarry(IF xs = <<>> THEN <<>> ELSE Tail(xs),
                                    IF ys = <<>> THEN <<>> ELSE Tail(ys),
                                    t \div 10)

\* sum of two digit sequences of the same number of decimals
Plus(xs, ys) == AddCarry(xs, ys, 0)

\* ds / 10^n rounded to the nearest integer; a tie goes to the neighbour
\* that `ties` names
RoundDiv(ds, n) ==
    LET len  == Len(ds)
        q    == IF len > n THEN Value(SubSeq(ds, n + 1, len)) ELSE 0
        top  == IF n >= 1 /\ len >= n THEN ds[n] ELSE 0
        rest == \E i \in 1..(Min(n, len + 1) - 1) : ds[i] # 0
        odd  == q % 2 = 1
    IN  IF top > 5 \/ (top = 5 /\ rest) THEN q + 1
        ELSE IF top = 5 /\ (odd <=> ties = "even") THEN q + 1
        ELSE q

\* round(x, p) for x = ds / 10^e, returned scaled by 10^p
Round(ds, e, p) ==
    IF e <= p THEN Value(ds) * Pow10(p - e) ELSE RoundDiv(ds, e - p)

-----------------------------------------------------------------------------
(* Strings: a city name is a sequence of characters so that lower() acts   *)
(* character by character; table keys are plain strings.                   *)

LowerChar(c) ==
    CASE c = "A" -> "a" [] c = "B" -> "b" [] c = "C" -> "c" [] c = "D" -> "d"
      [] c = "E" -> "e" [] c = "F" -> "f" [] c = "G" -> "g" [] c = "H" -> "h"
      [] c = "I" -> "i" [] c = "J" -> "j" [] c = "K" -> "k" [] c = "L" -> "l"
      [] c = "M" -> "m" [] c = "N" -> "n" [] c = "O" -> "o" [] c = "P" -> "p"
      [] c = "Q" -> "q" [] c = "R" -> "r" [] c = "S" -> "s" [] c = "T" -> "t"
      [] c = "U" -> "u" [] c = "V" -> "v" [] c = "W" -> "w" [] c = "X" -> "x"
      [] c = "Y" -> "y" [] c = "Z" -> "z" [] OTHER -> c

\* str.lower(), joined into the key string
RECURSIVE lower(_)
lower(s) == IF s = <<>> THEN "" ELSE LowerChar(Head(s)) \o lower(Tail(s))

\* Python None, and a dict without the "error" key
None == [t |-> "None"]
HasError(r) == "error" \in DOMAIN r

\* dict.get(key, default) on a table keyed by strings
Get(table, key, default) == IF key \in DOMAIN table THEN table[key] ELSE default

-----------------------------------------------------------------------------
(* JSON values handed over by the language-understanding service: a key a  *)
(* JSON object lacks is Absent, a JSON null is None.                       *)

Absent == [t |-> "absent"]
JNum(v) == [t |-> "num", v |-> v]
JStr(v) == [t |-> "str", v |-> v]
JBool(v) == [t |-> "bool", v |-> v]
JList(v) == [t |-> "list", v |-> v]

\* d.get(key, default)
DictGet(d, key, default) == IF d[key] = Absent THEN default ELSE d[key]

\* bool(v) as `x if v else y` takes it
Truthy(v) ==
    CASE v.t = "bool" -> v.v
      [] v.t = "num"  -> v.v # 0
      [] v.t = "str"  -> v.v # ""
      [] v.t = "list" -> v.v # <<>>
      [] OTHER        -> FALSE

\* a raised Python exception; str(e) is its message
Exception(type, message) == [exception |-> type, message |-> message]
Raised(r) == "exception" \in DOMAIN r
\* a list that a step returns where it may raise instead
Ok(v) == [value |-> v]

-----------------------------------------------------------------------------
(* labor_calc.py: LaborCalculator *)

\* self.base_rates, by SkillLevel value (cents per hour)
base_rates ==
    [helper |-> 2200, basic |-> 3000, skilled |-> 4200, specialist |-> 6500]

\* LaborCalculator.regional_multipliers (hundredths)
labor_regional_multipliers ==
    [paris |-> 145, lyon |-> 120, marseille |-> 100, toulouse |-> 112,
     nice |-> 130, nantes |-> 105, strasbourg |-> 118, bordeaux |-> 115,
     lille |-> 110, montpellier |-> 103, rennes |-> 106, reims |-> 102]

\* LaborCalculator.task_definitions (hours in tenths, factors in tenths)
labor_task_definitions ==
    [demolition |->
        [skill_level |-> "basic", hours_per_sqm |-> 15, minimum_hours |-> 30,
         complexity_factors |->
            [thick_walls |-> 13, tight_access |-> 12,
             electrical_obstacles |-> 12]],
     tiling |->
        [skill_level |-> "skilled", hours_per_sqm |-> 28, minimum_hours |-> 60,
         complexity_factors |->
            [small_tiles |-> 14, pattern_work |-> 16, curved_surfaces |-> 15,
             waterproofing |-> 13]],
     plumbing |->
        [skill_level |-> "specialist", hours_per_sqm |-> 25,
         minimum_hours |-> 40,
         complexity_factors |->
            [new_connections |-> 15, old_building |-> 14,
             waterproofing |-> 12]],
     electrical |->
        [skill_level |-> "specialist", hours_per_sqm |-> 20,
         minimum_hours |-> 30,
         complexity_factors |->
            [new_circuit |-> 15, bathroom_safety |-> 13,
             concealed_wiring |-> 14]],
     installation |->
        [skill_level |-> "skilled", hours_per_sqm |-> 18, minimum_hours |-> 20,
         complexity_factors |->
            [heavy_items |-> 13, custom_fitting |-> 14, wall_mounting |-> 11]],
     painting |->
        [skill_level |-> "basic", hours_per_sqm |-> 10, minimum_hours |-> 40,
         complexity_factors |->
            [multiple_coats |-> 14, detail_work |-> 13,
             moisture_resistant |-> 11]]]

\* self.seasonal_multipliers, by month (hundredths)
seasonal_multipliers ==
    <<95, 95, 100, 115, 125, 125, 135, 135, 115, 115, 95, 95>>

\* the loop over complexity_factors: the applied (factor, multiplier) pairs
RECURSIVE AppliedFactors(_, _)
AppliedFactors(known, factors) ==
    IF factors = <<>> THEN <<>>
    ELSE (IF Head(factors) \in DOMAIN known
          THEN <<[factor |-> Head(factors), multiplier |-> known[Head(factors)]]>>
          ELSE <<>>) \o AppliedFactors(known, Tail(factors))

\* complexity_multiplier *= factor_multiplier, as a numerator over 10^Len
RECURSIVE FactorProduct(_)
FactorProduct(applied) ==
    IF applied = <<>> THEN 1
    ELSE Head(applied).multiplier * FactorProduct(Tail(applied))

\* the hours of the area alone, without the floor
BillableHoursUnfloored(task_def, area_or_units) ==
    area_or_units * task_def.hours_per_sqm

\* max(base_hours, minimum_hours), in hundredths of an hour
BillableHours(task_def, area_or_units) ==
    Max(area_or_units * task_def.hours_per_sqm, task_def.minimum_hours * 10)

\* the characters of a name joined as they are
RECURSIVE Joined(_)
Joined(s) == IF s = <<>> THEN "" ELSE Head(s) \o Joined(Tail(s))

\* a lookup by the name as given, without lower()
LaborRegionalMultiplierAsGiven(region) ==
    Get(labor_regional_multipliers, Joined(region), 100)

\* regional_multipliers.get(region.lower(), 1.0)
LaborRegionalMultiplier(region) ==
    Get(labor_regional_multipliers, lower(region), 100)

\* a calculator that prices a task without a target date by the season of
\* the clock, read as one tick a month from March on
SeasonalMultiplierOfToday(target_date) ==
    IF target_date = None THEN seasonal_multipliers[((now + 2) % 12) + 1]
    ELSE IF target_date.month \in DOMAIN seasonal_multipliers
         THEN seasonal_multipliers[target_date.month] ELSE 100

\* seasonal_multiplier: 1.0 unless a target date is given
SeasonalMultiplier(target_date) ==
    IF target_date = None THEN 100
    ELSE IF target_date.month \in DOMAIN seasonal_multipliers
         THEN seasonal_multipliers[target_date.month] ELSE 100

\* a rush surcharge of one half
RushMultiplierOfHalf(rush_job) == IF rush_job THEN 15 ELSE 10

\* rush_multiplier = 1.8 if rush_job else 1.0
RushMultiplier(rush_job) == IF rush_job THEN 18 ELSE 10

calculate_task_labor(task_type, area_or_units, region, complexity_factors, target_date, rush_job) ==
    IF task_type \notin DOMAIN labor_task_definitions
    THEN [error |-> <<"Unknown task type", task_type>>]
    ELSE
    LET task_def     == labor_task_definitions[task_type]
        base_hours   == area_or_units * task_def.hours_per_sqm    \* /100
        billable     == BillableHours(task_def, area_or_units)    \* /100
        applied      == AppliedFactors(task_def.complexity_factors,
                                       complexity_factors)
        k            == Len(applied)
        cm           == FactorProduct(applied)                    \* /10^k
        final_hours  == billable * cm                             \* /10^(2+k)
        base_rate    == base_rates[task_def.skill_level]          \* EUR/100
        regional     == LaborRegionalMultiplier(region)
        seasonal     == SeasonalMultiplier(target_date)
        rush         == RushMultiplier(rush_job)
        \* final_hourly_rate in EUR, over 10^7
        rate         == Times(Times(Digits(base_rate * regional), seasonal),
                              rush)
        \* base_labor_cost in EUR, over 10^(9+k)
        cost         == Times(rate, final_hours)
    IN  [task_type |-> task_type,
         skill_required |-> task_def.skill_level,
         base_hours |-> Round(Digits(base_hours), 2, 1),
         billable_hours |-> Round(Digits(billable), 2, 1),
         final_hours |-> Round(Digits(final_hours), 2 + k, 1),
         base_hourly_rate |-> base_rate,
         regional_multiplier |-> regional,
         complexity_multiplier |-> Round(Digits(cm), k, 2),
         seasonal_multiplier |-> seasonal,
         rush_multiplier |-> rush,
         final_hourly_rate |-> Round(rate, 7, 2),
         base_labor_cost |-> Round(cost, 9 + k, 2),
         applied_complexity_factors |-> applied,
         area_or_units |-> area_or_units]

-----------------------------------------------------------------------------
(* material_db.py: MaterialDatabase *)

\* Material(...) with the defaults of one catalog entry; base_cost in
\* hundredths of a cent, supplier_margin and availability_score in percent
Material(name, category, unit, base_cost, supplier_margin, quality_grade, availability_score) ==
    [name |-> name, category |-> category, unit |-> unit,
     base_cost |-> base_cost, supplier_margin |-> supplier_margin,
     quality_grade |-> quality_grade,
     availability_score |-> availability_score,
     last_updated |-> 0, supplier_id |-> None]

\* _initialize_default_materials
default_materials ==
    [ceramic_floor_basic |->
        Material("Ceramic Floor Tiles - Basic", "flooring", "m2",
                 220000, 15, "basic", 95),
     ceramic_floor_standard |->
        Material("Ceramic Floor Tiles - Standard", "flooring", "m2",
                 350000, 18, "standard", 90),
     wall_tiles_standard |->
        Material("Wall Tiles - Standard", "tiling", "m2",
                 280000, 15, "standard", 90),
     tile_adhesive |->
        Material("Flexible Tile Adhesive", "consumables", "kg",
                 28000, 10, "standard", 95),
     waterproof_membrane |->
        Material("Waterproof Membrane", "consumables", "m2",
                 120000, 15, "standard", 90),
     shower_mixer_basic |->
        Material("Shower Mixer - Basic Chrome", "plumbing", "unit",
                 850000, 25, "basic", 95),
     shower_mixer_premium |->
        Material("Shower Mixer - Premium Thermostatic", "plumbing", "unit",
                 2200000, 30, "premium", 75),
     toilet_standard |->
        Material("Wall-hung Toilet - Standard", "plumbing", "unit",
                 2800000, 20, "standard", 85),
     vanity_unit_60cm |->
        Material("Vanity Unit 60cm with Basin", "installation", "unit",
                 3200000, 25, "standard", 80),
     pipes_pvc |->
        Material("PVC Pipes and Fittings", "plumbing", "m",
                 85000, 15, "standard", 95),
     bathroom_paint_basic |->
        Material("Bathroom Paint - Anti-mold Basic", "painting", "liter",
                 150000, 12, "basic", 95),
     primer |->
        Material("Wall Primer - Bathroom", "painting", "liter",
                 120000, 12, "standard", 95),
     demolition_materials |->
        Material("Demolition Supplies", "consumables", "m2",
                 50000, 10, "basic", 95),
     electrical_supplies |->
        Material("Electrical Supplies - Bathroom", "electrical", "unit",
                 450000, 20, "standard", 90)]

\* _setup_regional_pricing (hundredths)
default_regional_multipliers ==
    [paris |-> 135, lyon |-> 115, marseille |-> 100, toulouse |-> 108,
     nice |-> 125, nantes |-> 105, strasbourg |-> 118, bordeaux |-> 112,
     lille |-> 110, montpellier |-> 103, rennes |-> 106, reims |-> 102]

\* the material multiplier read from the labor calculator's table
get_regional_multiplier_of_labor(region) ==
    Get(labor_regional_multipliers, lower(region), 100)

\* self.regional_multipliers.get(region.lower(), 1.0)
get_regional_multiplier(region) ==
    Get(regional_multipliers, lower(region), 100)

\* the Material with regional pricing applied, or None
get_material(material_id, region) ==
    IF material_id \notin DOMAIN materials THEN None
    ELSE LET base_material == materials[material_id]
             regional_multiplier == get_regional_multiplier(region)
         IN  [base_material EXCEPT
                !.base_cost = (base_material.base_cost * regional_multiplier)
                                \div 100]

\* the supplier margin taken once on the unit cost, whatever the quantity
get_cost_with_margin_flat_margin(material_id, quantity, region) ==
    LET material == get_material(material_id, region)
    IN  IF material = None
        THEN [error |-> <<"Material not found", material_id>>]
        ELSE
        LET base_cost     == Times(Digits(material.base_cost), quantity)
            margin_amount == Times(Times(Digits(material.base_cost), 1000),
                                   material.supplier_margin)
            total_cost    == Plus(Times(base_cost, 100), margin_amount)
        IN  [material_id |-> material_id,
             name |-> material.name,
             quantity |-> quantity,
             unit |-> material.unit,
             unit_cost |-> material.base_cost,
             base_cost |-> Round(base_cost, 7, 2),
             margin |-> Round(margin_amount, 9, 2),
             total_cost |-> Round(total_cost, 9, 2),
             availability_score |-> material.availability_score,
             quality_grade |-> material.quality_grade]

\* quantity in thousandths; base_cost, margin, total_cost in cents
get_cost_with_margin(material_id, quantity, region) ==
    LET material == get_material(material_id, region)
    IN  IF material = None
        THEN [error |-> <<"Material not found", material_id>>]
        ELSE
        LET \* EUR over 10^7
            base_cost     == Times(Digits(material.base_cost), quantity)
            \* EUR over 10^9
            margin_amount == Times(base_cost, material.supplier_margin)
            total_cost    == Plus(Times(base_cost, 100), margin_amount)
        IN  [material_id |-> material_id,
             name |-> material.name,
             quantity |-> quantity,
             unit |-> material.unit,
             unit_cost |-> material.base_cost,
             base_cost |-> Round(base_cost, 7, 2),
             margin |-> Round(margin_amount, 9, 2),
             total_cost |-> Round(total_cost, 9, 2),
             availability_score |-> material.availability_score,
             quality_grade |-> material.quality_grade]

\* table[key] = value on a dict
Put(table, key, value) ==
    [k \in DOMAIN table \cup {key} |-> IF k = key THEN value ELSE table[k]]

\* an unknown id is inserted at the new price instead of being refused
update_material_price_upsert(material_id, new_price, supplier_id) ==
    [materials |->
         Put(materials, material_id,
             Material("", "", "", new_price, 0, "", 0)),
     returned |-> TRUE]

\* update_material_price: the catalog after the call and the value
\* returned; new_price in 1/10000 EUR
update_material_price(material_id, new_price, supplier_id) ==
    IF material_id \in DOMAIN materials
    THEN [materials |->
              [materials EXCEPT
                 ![material_id] =
                     [@ EXCEPT !.base_cost = new_price,
                               !.last_updated = now,
                               !.supplier_id =
                                   IF Truthy(supplier_id)
                                   THEN supplier_id ELSE @]],
          returned |-> TRUE]
    ELSE [materials |-> materials, returned |-> FALSE]

\* add_material: self.materials[material_id] = material
add_material(material_id, material) == Put(materials, material_id, material)

\* the dict without any key
EmptyDict == [k \in {} |-> None]

\* the loop of load_from_file over data["materials"], filling `loaded`
\* until an entry that Material(**mat_data) does not accept raises
RECURSIVE LoadEntries(_, _)
LoadEntries(entries, loaded) ==
    IF entries = <<>> THEN [materials |-> loaded, raised |-> FALSE]
    ELSE IF ~Head(entries).well_formed
    THEN [materials |-> loaded, raised |-> TRUE]
    ELSE LoadEntries(Tail(entries),
                     Put(loaded, Head(entries).material_id,
                         Head(entries).material))

\* the end of load_from_file: the multipliers replaced and True returned,
\* or the exception caught and False returned with what was loaded so far
LoadOutcome(file, loaded) ==
    IF loaded.raised
    THEN [materials |-> loaded.materials,
          regional_multipliers |-> regional_multipliers,
          returned |-> FALSE]
    ELSE [materials |-> loaded.materials,
          regional_multipliers |->
              IF file.regional_multipliers = Absent THEN EmptyDict
              ELSE file.regional_multipliers,
          returned |-> TRUE]

\* load_from_file: the two tables after the call and the value returned;
\* a file that cannot be opened or parsed leaves both as they are
load_from_file(file) ==
    IF file.kind # "object"
    THEN [materials |-> materials,
          regional_multipliers |-> regional_multipliers,
          returned |-> FALSE]
    ELSE LoadOutcome(file, LoadEntries(file.materials, EmptyDict))

\* the regional price written back into the stored Material
get_material_stored_in_place(material_id, region) ==
    IF material_id \notin DOMAIN materials THEN materials
    ELSE [materials EXCEPT
            ![material_id].base_cost =
                (@ * Get(regional_multipliers, lower(region), 100)) \div 100]

\* self.materials after get_material: the stored Material is read and a
\* new one is built, nothing is assigned to the catalog
get_material_stored(material_id, region) == materials

-----------------------------------------------------------------------------
(* vat_rules.py: VATCalculatorForQuotes *)

\* self.vat_rates (per mille)
vat_rates ==
    [standard |-> 200, renovation |-> 100, energy_efficiency |-> 55,
     social_housing |-> 55]

\* the tiers with "older than two years" read strictly
SimpleVatTierStrict(building_age_years, is_energy_renovation) ==
    IF is_energy_renovation /\ building_age_years > 2
    THEN [vat_rate |-> vat_rates.energy_efficiency,
          rate_description |-> "Energy efficiency renovation (5.5%)"]
    ELSE IF building_age_years > 2
    THEN [vat_rate |-> vat_rates.renovation,
          rate_description |-> "Renovation work on building >2 years (10%)"]
    ELSE [vat_rate |-> vat_rates.standard,
          rate_description |-> "New construction rate (20%)"]

\* the rate tier of the simple path: first match wins
SimpleVatTier(building_age_years, is_energy_renovation) ==
    IF is_energy_renovation /\ building_age_years >= 2
    THEN [vat_rate |-> vat_rates.energy_efficiency,
          rate_description |-> "Energy efficiency renovation (5.5%)"]
    ELSE IF building_age_years >= 2
    THEN [vat_rate |-> vat_rates.renovation,
          rate_description |-> "Renovation work on building >2 years (10%)"]
    ELSE [vat_rate |-> vat_rates.standard,
          rate_description |-> "New construction rate (20%)"]

\* a resolver that charges VAT on the materials alone
calculate_simple_renovation_vat_materials_only(materials_cost, labor_cost, building_age_years, is_energy_renovation) ==
    LET subtotal   == materials_cost + labor_cost
        tier       == SimpleVatTier(building_age_years, is_energy_renovation)
        vat_amount == Times(Digits(materials_cost), tier.vat_rate)
        total_including_vat == Plus(Times(Digits(subtotal), 1000), vat_amount)
    IN  [materials_cost |-> materials_cost,
         labor_cost |-> labor_cost,
         subtotal |-> subtotal,
         vat_rate |-> tier.vat_rate,
         vat_amount |-> Round(vat_amount, 7, 2),
         total_including_vat |-> Round(total_including_vat, 7, 2),
         rate_description |-> tier.rate_description,
         building_age_years |-> building_age_years,
         is_energy_renovation |-> is_energy_renovation]

\* materials_cost, labor_cost in hundredths of a cent; amounts out in cents
calculate_simple_renovation_vat(materials_cost, labor_cost, building_age_years, is_energy_renovation) ==
    LET subtotal   == materials_cost + labor_cost
        tier       == SimpleVatTier(building_age_years, is_energy_renovation)
        \* EUR over 10^7
        vat_amount == Times(Digits(subtotal), tier.vat_rate)
        total_including_vat == Plus(Times(Digits(subtotal), 1000), vat_amount)
    IN  [materials_cost |-> materials_cost,
         labor_cost |-> labor_cost,
         subtotal |-> subtotal,
         vat_rate |-> tier.vat_rate,
         vat_amount |-> Round(vat_amount, 7, 2),
         total_including_vat |-> Round(total_including_vat, 7, 2),
         rate_description |-> tier.rate_description,
         building_age_years |-> building_age_years,
         is_energy_renovation |-> is_energy_renovation]

\* context.get(key, default) on a work context or quote_data whose missing
\* keys are Absent
ContextGet(context, key, default) ==
    IF context[key] = Absent THEN default ELSE context[key].v

\* _determine_vat_rate: the first rule that matches, with its documents
_determine_vat_rate(context) ==
    LET work_type     == ContextGet(context, "work_type", "renovation")
        property_type == ContextGet(context, "property_type",
                                    "residential_primary")
        building_age  == ContextGet(context, "building_age_years", 5)
        has_energy_features ==
            ContextGet(context, "has_energy_features", FALSE)
    IN  IF property_type = "social_housing"
        THEN [rate |-> vat_rates.social_housing,
              description |-> "Social housing improvements (5.5%)",
              requirements |-> <<"Social housing certification",
                                 "Qualified contractor">>]
        ELSE IF /\ (work_type = "energy_renovation" \/ has_energy_features)
                /\ building_age >= 2
        THEN [rate |-> vat_rates.energy_efficiency,
              description |-> "Energy efficiency improvements (5.5%)",
              requirements |->
                  <<"Building age certificate (>2 years)",
                    "Energy efficiency certifications for materials",
                    "RGE certified contractor required",
                    "Customer declaration of building use">>]
        ELSE IF /\ building_age >= 2
                /\ property_type \in {"residential_primary",
                                      "residential_secondary"}
        THEN [rate |-> vat_rates.renovation,
              description |-> "Renovation work on building >2 years (10%)",
              requirements |->
                  <<"Building age certificate (>2 years)",
                    "VAT-registered contractor required",
                    "Detailed materials/labor breakdown",
                    "Customer declaration of building use">>]
        ELSE [rate |-> vat_rates.standard,
              description |-> "Standard VAT rate (20%)",
              requirements |-> <<"Standard VAT invoice required">>]

\* the loop over items: the amounts of one type summed (1/10000 EUR)
RECURSIVE ItemTotal(_, _)
ItemTotal(items, type) ==
    IF items = <<>> THEN 0
    ELSE (IF Head(items).type = type THEN Head(items).amount ELSE 0)
         + ItemTotal(Tail(items), type)

\* the amounts of calculate_detailed_vat from the two totals and the tier
DetailedVat(total_materials, total_labor, vat_info) ==
    [materials_total |-> Round(Digits(total_materials), 4, 2),
     labor_total |-> Round(Digits(total_labor), 4, 2),
     subtotal |-> Round(Digits(total_materials + total_labor), 4, 2),
     vat_rate |-> vat_info.rate,
     vat_description |-> vat_info.description,
     vat_amount |->
         Round(Times(Digits(total_materials + total_labor), vat_info.rate),
               7, 2),
     total_including_vat |->
         Round(Plus(Times(Digits(total_materials + total_labor), 1000),
                    Times(Digits(total_materials + total_labor),
                          vat_info.rate)), 7, 2),
     compliance_requirements |-> vat_info.requirements]

\* calculate_detailed_vat: amounts out in cents
calculate_detailed_vat(items, work_context) ==
    DetailedVat(ItemTotal(items, "materials"), ItemTotal(items, "labor"),
                _determine_vat_rate(work_context))

\* the documents validate_vat_compliance asks for at a rate
DocumentationRequired(vat_rate) ==
    (IF vat_rate = 100
     THEN <<"Building age certificate or construction permit showing building >2 years old",
            "Contractor VAT registration certificate",
            "Detailed invoice separating materials and labor",
            "Customer declaration of residential use">>
     ELSE IF vat_rate = 55
     THEN <<"Building age certificate showing building >2 years old",
            "Energy efficiency certifications for all materials",
            "RGE (Reconnu Garant de l'Environnement) contractor certification",
            "Energy performance improvement documentation",
            "Customer declaration of residential use and building age">>
     ELSE <<>>)
    \o (IF vat_rate < 200
        THEN <<"Contractor must be VAT registered in France">> ELSE <<>>)

\* the issues validate_vat_compliance finds
ComplianceIssues(vat_rate, building_age) ==
    IF vat_rate < 200 /\ building_age < 2
    THEN <<"Building age is <2 years but reduced VAT rate applied">>
    ELSE <<>>

\* validate_vat_compliance; vat_rate per mille
validate_vat_compliance(quote_data) ==
    [compliant |->
         ComplianceIssues(ContextGet(quote_data, "vat_rate", 200),
                          ContextGet(quote_data, "building_age_years", 0))
             = <<>>,
     compliance_issues |->
         ComplianceIssues(ContextGet(quote_data, "vat_rate", 200),
                          ContextGet(quote_data, "building_age_years", 0)),
     documentation_required |->
         DocumentationRequired(ContextGet(quote_data, "vat_rate", 200)),
     vat_rate_applied |-> ContextGet(quote_data, "vat_rate", 200),
     validation_date |-> now]

-----------------------------------------------------------------------------
(* transcript_parser.py: SmartTranscriptParser *)

\* len(task.get("complexity_factors", [])) summed over the tasks
RECURSIVE TotalComplexity(_)
TotalComplexity(tasks) ==
    IF tasks = <<>> THEN 0
    ELSE Len(DictGet(Head(tasks), "complexity_factors", JList(<<>>)).v)
         + TotalComplexity(Tail(tasks))

\* a transcript is read only for its measurement words, its city names and
\* its number of words
_calculate_confidence(parsed_data, transcript) ==
    LET tasks == DictGet(parsed_data, "tasks", JList(<<>>))
    IN  IF tasks = None
        THEN Exception("TypeError", "object of type 'NoneType' has no len()")
        ELSE
        LET task_count == Len(tasks.v)
            total_complexity == TotalComplexity(tasks.v)
            c0 == 75
            c1 == c0 + (IF transcript.mentions_measure THEN 10 ELSE 0)
            c2 == c1 + (IF transcript.mentions_city THEN 10 ELSE 0)
            c3 == c2 + (IF task_count >= 3 THEN 10
                        ELSE IF task_count >= 2 THEN 5 ELSE 0)
            c4 == c3 + (IF total_complexity > 0
                        THEN Min(5, total_complexity * 2) ELSE 0)
            c5 == c4 - (IF transcript.word_count < 10 THEN 20
                        ELSE IF transcript.word_count < 20 THEN 10 ELSE 0)
        IN  JNum(Max(30, Min(100, c5)))

\* a parser that fills the two keys only where the service left them out
parse_transcript_setdefault(transcript, response) ==
    IF response.kind = "api_error"
    THEN Exception("APIConnectionError", "Connection error.")
    ELSE IF response.kind = "bad_json"
    THEN Exception("JSONDecodeError",
                   "Expecting value: line 1 column 1 (char 0)")
    ELSE LET parsed_json == response.data
             confidence  == _calculate_confidence(parsed_json, transcript)
         IN  IF Raised(confidence) THEN confidence
             ELSE [parsed_json EXCEPT
                     !.confidence_score =
                         IF @ = Absent THEN confidence ELSE @,
                     !.parsing_method =
                         IF @ = Absent THEN JStr("openai") ELSE @]

\* the service's answer: a failed call, text that is no JSON, or a JSON
\* object `data`
parse_transcript(transcript, response) ==
    IF response.kind = "api_error"
    THEN Exception("APIConnectionError", "Connection error.")
    ELSE IF response.kind = "bad_json"
    THEN Exception("JSONDecodeError",
                   "Expecting value: line 1 column 1 (char 0)")
    ELSE LET parsed_json == response.data
             confidence  == _calculate_confidence(parsed_json, transcript)
         IN  IF Raised(confidence) THEN confidence
             ELSE [parsed_json EXCEPT !.confidence_score = confidence,
                                      !.parsing_method = JStr("openai")]

-----------------------------------------------------------------------------
(* pricing_engine.py: PricingEngine *)

\* self.task_definitions; materials in dict order, quantity per square
\* metre in hundredths
engine_task_definitions ==
    [demolition |->
        [skill_level |-> "basic", hours_per_sqm |-> 15,
         materials |-> <<[material_id |-> "demolition_materials", qty_per_sqm |-> 100]>>],
     tiling |->
        [skill_level |-> "skilled", hours_per_sqm |-> 28,
         materials |-> <<[material_id |-> "ceramic_floor_basic", qty_per_sqm |-> 110],
                         [material_id |-> "tile_adhesive", qty_per_sqm |-> 150],
                         [material_id |-> "waterproof_membrane", qty_per_sqm |-> 100]>>],
     plumbing |->
        [skill_level |-> "specialist", hours_per_sqm |-> 25,
         materials |-> <<[material_id |-> "shower_mixer_basic", qty_per_sqm |-> 25],
                         [material_id |-> "toilet_standard", qty_per_sqm |-> 25],
                         [material_id |-> "pipes_pvc", qty_per_sqm |-> 300]>>],
     installation |->
        [skill_level |-> "skilled", hours_per_sqm |-> 18,
         materials |-> <<[material_id |-> "vanity_unit_60cm", qty_per_sqm |-> 25]>>],
     painting |->
        [skill_level |-> "basic", hours_per_sqm |-> 10,
         materials |-> <<[material_id |-> "bathroom_paint_basic", qty_per_sqm |-> 20],
                         [material_id |-> "primer", qty_per_sqm |-> 15]>>],
     electrical |->
        [skill_level |-> "specialist", hours_per_sqm |-> 20,
         materials |-> <<[material_id |-> "electrical_supplies", qty_per_sqm |-> 50]>>]]

\* task_type.replace("_", "")
replace_underscores(task_type) ==
    CASE task_type = "wall_tiling" -> "walltiling"
      [] task_type = "til_ing"     -> "tiling"
      [] OTHER                     -> task_type

\* f"{task_type.title()} work"
TitleWork(task_type) ==
    CASE task_type = "demolition"   -> "Demolition work"
      [] task_type = "tiling"       -> "Tiling work"
      [] task_type = "plumbing"     -> "Plumbing work"
      [] task_type = "installation" -> "Installation work"
      [] task_type = "painting"     -> "Painting work"
      [] task_type = "electrical"   -> "Electrical work"
      [] OTHER                      -> task_type

\* "energy" in s.lower(), for the strings a work order of the model holds
ContainsEnergy(s) ==
    s \in {"Energy-efficient ventilation", "energy_saving"}

\* two results in sequence: the first exception raised, or the lists joined
Extend(first, rest) ==
    IF Raised(first) THEN first
    ELSE IF Raised(rest) THEN rest
    ELSE Ok(first.value \o rest.value)

\* a materials loop that indexes cost_info without looking for an error
MaterialLine_unchecked(cost_info) ==
    IF HasError(cost_info) THEN Exception("KeyError", "name")
    ELSE Ok(<<[name |-> cost_info.name,
               quantity |-> cost_info.quantity,
               unit |-> cost_info.unit,
               unit_cost |-> cost_info.unit_cost,
               total_cost |-> cost_info.total_cost]>>)

\* materials.append({...}) unless cost_info reports an error
MaterialLine(cost_info) ==
    IF HasError(cost_info) THEN Ok(<<>>)
    ELSE Ok(<<[name |-> cost_info.name,
               quantity |-> cost_info.quantity,
               unit |-> cost_info.unit,
               unit_cost |-> cost_info.unit_cost,
               total_cost |-> cost_info.total_cost]>>)

\* the loop over task_def["materials"]: the costed lines, or the exception
\* that area * qty_per_sqm or region.lower() raises
RECURSIVE TaskMaterials(_, _, _)
TaskMaterials(needs, area, city) ==
    IF needs = <<>> THEN Ok(<<>>)
    ELSE IF area = None
    THEN Exception("TypeError",
             "unsupported operand type(s) for *: 'NoneType' and 'float'")
    ELSE IF city = None /\ Head(needs).material_id \in DOMAIN materials
    THEN Exception("AttributeError",
             "'NoneType' object has no attribute 'lower'")
    ELSE Extend(MaterialLine(get_cost_with_margin(
                        Head(needs).material_id,
                        area.v * Head(needs).qty_per_sqm,
                        IF city = None THEN <<>> ELSE city.v)),
                TaskMaterials(Tail(needs), area, city))

RECURSIVE SumOf(_, _)
SumOf(items, field) ==
    IF items = <<>> THEN 0 ELSE Head(items)[field] + SumOf(Tail(items), field)

\* the labor calculator as _generate_detailed_tasks calls it: no target
\* date, no rush
TaskLabor(task, area, city) ==
    IF /\ city = None
       /\ replace_underscores(task.type) \in DOMAIN labor_task_definitions
    THEN Exception("AttributeError",
             "'NoneType' object has no attribute 'lower'")
    ELSE calculate_task_labor(
             replace_underscores(task.type), area.v,
             IF city = None THEN <<>> ELSE city.v,
             DictGet(task, "complexity_factors", JList(<<>>)).v,
             None, FALSE)

\* detailed_tasks.append({...}) unless labor_result reports an error
LineItem(task, area, materials_list, labor_result) ==
    IF Raised(labor_result) THEN labor_result
    ELSE IF HasError(labor_result) THEN Ok(<<>>)
    ELSE Ok(<<[task_type |-> task.type,
               description |->
                   DictGet(task, "description",
                           JStr(TitleWork(task.type))).v,
               area_sqm |-> area.v,
               labor_hours |-> labor_result.billable_hours,
               labor_cost |-> labor_result.base_labor_cost,
               materials |-> materials_list,
               materials_cost |-> SumOf(materials_list, "total_cost"),
               skill_required |-> labor_result.skill_required,
               complexity_factors |->
                   DictGet(task, "complexity_factors", JList(<<>>)).v]>>)

\* the loop body after the materials loop: the labor call and the line item
PricedTask(task, area, city, mats) ==
    IF Raised(mats) THEN mats
    ELSE LineItem(task, area, mats.value, TaskLabor(task, area, city))

\* the loop body without its guard: self.task_definitions[task_type] raises
\* for a type the table does not hold
DetailedTask_unguarded(task, area, city) ==
    IF task.type \notin DOMAIN engine_task_definitions
    THEN Exception("KeyError", task.type)
    ELSE PricedTask(task, area, city,
             TaskMaterials(engine_task_definitions[task.type].materials,
                           area, city))

\* one pass of the loop body: nothing for a skipped task, the line item,
\* or the exception raised
DetailedTask(task, area, city) ==
    IF task.type \notin DOMAIN engine_task_definitions THEN Ok(<<>>)
    ELSE PricedTask(task, area, city,
             TaskMaterials(engine_task_definitions[task.type].materials,
                           area, city))

RECURSIVE DetailedTasks(_, _, _)
DetailedTasks(tasks, area, city) ==
    IF tasks = <<>> THEN Ok(<<>>)
    ELSE Extend(DetailedTask(Head(tasks), area, city),
                DetailedTasks(Tail(tasks), area, city))

\* parsed_data.get(key) without the defaults: None for a missing key
_generate_detailed_tasks_without_defaults(parsed_data) ==
    LET area  == DictGet(parsed_data, "area_sqm", None)
        city  == DictGet(parsed_data, "city", None)
        tasks == DictGet(parsed_data, "tasks", None)
    IN  IF tasks = None
        THEN Exception("TypeError", "'NoneType' object is not iterable")
        ELSE DetailedTasks(tasks.v, area, city)

_generate_detailed_tasks(parsed_data) ==
    LET area  == DictGet(parsed_data, "area_sqm", JNum(40))
        city  == DictGet(parsed_data, "city",
                         JStr(<<"m", "a", "r", "s", "e", "i", "l", "l", "e">>))
        tasks == DictGet(parsed_data, "tasks", JList(<<>>))
    IN  IF tasks = None
        THEN Exception("TypeError", "'NoneType' object is not iterable")
        ELSE DetailedTasks(tasks.v, area, city)

\* the word looked for in the task type alone
TaskMentionsEnergy_in_type(task) == ContainsEnergy(task.task_type)

\* "energy" in str(task).lower(): the values of the line item that can
\* hold the word
TaskMentionsEnergy(task) ==
    \/ ContainsEnergy(task.task_type)
    \/ ContainsEnergy(task.description)
    \/ ContainsEnergy(task.skill_required)
    \/ \E i \in DOMAIN task.complexity_factors :
          ContainsEnergy(task.complexity_factors[i])
    \/ \E i \in DOMAIN task.materials :
          \/ ContainsEnergy(task.materials[i].name)
          \/ ContainsEnergy(task.materials[i].unit)

\* the two margins the wrong way round
MarginPercentageSwapped(parsed_data) ==
    IF Truthy(DictGet(parsed_data, "budget_conscious", JBool(FALSE)))
    THEN 25 ELSE 15

\* margin_percentage = 0.15 if budget_conscious else 0.25
MarginPercentage(parsed_data) ==
    IF Truthy(DictGet(parsed_data, "budget_conscious", JBool(FALSE)))
    THEN 15 ELSE 25

\* the identifier: a prefix and the clock to the second
ProjectId(prefix) == [prefix |-> prefix, stamp |-> now]

\* a final computation that divides by the number of line items
_calculate_final_quote_per_task(parsed_data, tasks) ==
    Exception("ZeroDivisionError", "division by zero")

_calculate_final_quote(parsed_data, tasks) ==
    LET subtotal_materials == SumOf(tasks, "materials_cost")
        subtotal_labor     == SumOf(tasks, "labor_cost")
        margin_percentage  == MarginPercentage(parsed_data)
        building_age       == 5
        is_energy == \E i \in DOMAIN tasks : TaskMentionsEnergy(tasks[i])
        vat_calculation ==
            calculate_simple_renovation_vat(
                subtotal_materials * (100 + margin_percentage),
                subtotal_labor * (100 + margin_percentage),
                building_age, is_energy)
    IN  [project_id |-> ProjectId("BTH_"),
         zone |-> "bathroom",
         city |-> DictGet(parsed_data, "city",
                     JStr(<<"m", "a", "r", "s", "e", "i", "l", "l", "e">>)),
         total_area_sqm |-> DictGet(parsed_data, "area_sqm", JNum(40)),
         tasks |-> tasks,
         subtotal_materials |-> subtotal_materials,
         subtotal_labor |-> subtotal_labor,
         vat_amount |-> vat_calculation.vat_amount,
         total_price |-> vat_calculation.total_including_vat,
         margin_percentage |-> margin_percentage,
         confidence_score |->
             DictGet(parsed_data, "confidence_score", JNum(50)).v,
         parsing_method |->
             DictGet(parsed_data, "parsing_method", JStr("unknown")).v,
         created_at |-> now]

\* a fallback whose placeholder line carries a fixed text instead of str(e)
_generate_fallback_quote_silent(transcript, error) ==
    [project_id |-> ProjectId("BTH_FALLBACK_"),
     zone |-> "bathroom",
     city |-> JStr(<<"m", "a", "r", "s", "e", "i", "l", "l", "e">>),
     total_area_sqm |-> JNum(40),
     tasks |-> <<[task_type |-> "general_renovation",
                  description |->
                      "General bathroom renovation (fallback estimate)",
                  area_sqm |-> 40,
                  labor_hours |-> 200,
                  labor_cost |-> 80000,
                  materials |-> <<[name |-> "Mixed materials",
                                   total_cost |-> 120000]>>,
                  materials_cost |-> 120000,
                  skill_required |-> "skilled",
                  error |-> "Quote generation failed"]>>,
     subtotal_materials |-> 120000,
     subtotal_labor |-> 80000,
     vat_amount |-> 20000,
     total_price |-> 220000,
     margin_percentage |-> 20,
     confidence_score |-> 10,
     parsing_method |-> "fallback",
     created_at |-> now]

_generate_fallback_quote(transcript, error) ==
    [project_id |-> ProjectId("BTH_FALLBACK_"),
     zone |-> "bathroom",
     city |-> JStr(<<"m", "a", "r", "s", "e", "i", "l", "l", "e">>),
     total_area_sqm |-> JNum(40),
     tasks |-> <<[task_type |-> "general_renovation",
                  description |->
                      "General bathroom renovation (fallback estimate)",
                  area_sqm |-> 40,
                  labor_hours |-> 200,
                  labor_cost |-> 80000,
                  materials |-> <<[name |-> "Mixed materials",
                                   total_cost |-> 120000]>>,
                  materials_cost |-> 120000,
                  skill_required |-> "skilled",
                  error |-> error]>>,
     subtotal_materials |-> 120000,
     subtotal_labor |-> 80000,
     vat_amount |-> 20000,
     total_price |-> 220000,
     margin_percentage |-> 20,
     confidence_score |-> 10,
     parsing_method |-> "fallback",
     created_at |-> now]

\* _save_quote: the file written, or the exception that makedirs, open or
\* dump raised, printed and dropped; nothing is raised to the caller
_save_quote(quote, disk_ok) ==
    IF disk_ok THEN [saved |-> TRUE, filename |-> quote.project_id]
    ELSE [saved |-> FALSE, error |-> "[Errno 28] No space left on device"]

\* `fault` names a step in which an exception the work order does not
\* explain is raised (out of memory, disk full): "none", "tasks", "final",
\* "save"
Step(fault, step, value) ==
    IF fault = step
    THEN Exception("MemoryError", "") ELSE value

\* Step 4 of the try block and its return: the Quote with the outcome of
\* saving it
SaveStep(quote, fault) ==
    IF Raised(quote) THEN quote
    ELSE [quote |-> quote, save |-> _save_quote(quote, fault # "save")]

\* Step 3 of the try block and what follows it
FinalStep(parsed_data, tasks, fault) ==
    IF Raised(tasks) THEN tasks
    ELSE SaveStep(Step(fault, "final",
                       _calculate_final_quote(parsed_data, tasks.value)),
                  fault)

\* Step 2 of the try block and what follows it
TasksStep(parsed_data, fault) ==
    IF Raised(parsed_data) THEN parsed_data
    ELSE FinalStep(parsed_data,
                   Step(fault, "tasks", _generate_detailed_tasks(parsed_data)),
                   fault)

\* the try block: the Quote with the outcome of saving it, or the exception
TryQuote(transcript, response, fault) ==
    TasksStep(parse_transcript(transcript, response), fault)

\* the outcome of the try block passed on as it is: the Quote returned, or
\* the exception
Propagate(transcript, try) ==
    IF Raised(try) THEN try
    ELSE [quote |-> try.quote, save |-> try.save, caught |-> None]

\* generate_quote whose try block has no except clause
generate_quote_unguarded(transcript, response, fault) ==
    Propagate(transcript, TryQuote(transcript, response, fault))

\* the except clause: every exception becomes the fallback Quote, which is
\* returned without being saved
ExceptClause(transcript, try) ==
    IF Raised(try)
    THEN [quote |-> _generate_fallback_quote(transcript, try.message),
          save |-> None,
          caught |-> try]
    ELSE [quote |-> try.quote, save |-> try.save, caught |-> None]

generate_quote(transcript, response, fault) ==
    ExceptClause(transcript, TryQuote(transcript, response, fault))

-----------------------------------------------------------------------------
(* Input domains *)

\* every sequence over S of length at most n
SeqsUpTo(S, n) == UNION {[1..m -> S] : m \in 0..n}

\* areas in tenths of a square metre: 0, 2.5 and 4.0
Areas == {0, 25, 40}

\* listed cities in lower, mixed and upper case, and an unlisted one
Cities ==
    {<<"m", "a", "r", "s", "e", "i", "l", "l", "e">>,
     <<"P", "a", "r", "i", "s">>,
     <<"L", "Y", "O", "N">>,
     <<"A", "t", "l", "a", "n", "t", "i", "s">>}

\* the catalog's identifiers and one it does not hold
MaterialIds == DOMAIN default_materials \cup {"gold_taps"}

\* the six task types of the labor table and one it does not know
LaborTaskTypes == DOMAIN labor_task_definitions \cup {"sauna"}

\* tags: known to tiling and plumbing, known to demolition, known to none
LaborTags == {"waterproofing", "tight_access", "premium_materials"}

\* target_date: None, or a date of which only the month is read
Dates == {None} \cup {[month |-> m] : m \in 1..12}

\* what the code reads of a transcript: a short one naming neither a
\* measure nor a city, and a long one naming both
ShortTranscript ==
    [mentions_measure |-> FALSE, mentions_city |-> FALSE, word_count |-> 6]
LongTranscript ==
    [mentions_measure |-> TRUE, mentions_city |-> TRUE, word_count |-> 30]
Transcripts == {ShortTranscript, LongTranscript}

\* requested tasks: a bare one, one with tags and a description, one whose
\* description holds the word "energy", and one of an unknown type
TaskPool ==
    {[type |-> "installation", description |-> Absent,
      complexity_factors |-> Absent],
     [type |-> "tiling", description |-> JStr("Lay new ceramic tiles"),
      complexity_factors |-> JList(<<"small_tiles", "waterproofing">>)],
     [type |-> "electrical",
      description |-> JStr("Energy-efficient ventilation"),
      complexity_factors |-> JList(<<>>)],
     [type |-> "sauna", description |-> Absent,
      complexity_factors |-> JList(<<"premium_materials">>)]}

\* the JSON objects the service may answer with; it may also set the two
\* keys the parser writes
WorkOrders ==
    {[area_sqm |-> a, city |-> c, tasks |-> t, budget_conscious |-> b,
      confidence_score |-> k.confidence_score,
      parsing_method |-> k.parsing_method] :
        a \in {Absent, None, JNum(25)},
        c \in {Absent, None, JStr(<<"P", "a", "r", "i", "s">>)},
        t \in {Absent, None}
                \cup {JList(l) : l \in SeqsUpTo(TaskPool, MaxTasks)},
        b \in {Absent, JBool(TRUE), JBool(FALSE)},
        k \in {[confidence_score |-> Absent, parsing_method |-> Absent],
               [confidence_score |-> JNum(10),
                parsing_method |-> JStr("fallback")]}}

Responses ==
    {[kind |-> "api_error"], [kind |-> "bad_json"]}
        \cup {[kind |-> "object", data |-> w] : w \in WorkOrders}

Faults == {"none", "tasks", "final", "save"}

\* the work orders priced twice: no injected fault, no supplied parser keys
RepeatedWorkOrders ==
    {[area_sqm |-> a, city |-> c, tasks |-> JList(l), budget_conscious |-> b,
      confidence_score |-> Absent, parsing_method |-> Absent] :
        a \in {JNum(25)},
        c \in {Absent, JStr(<<"P", "a", "r", "i", "s">>)},
        l \in SeqsUpTo(TaskPool, MaxTasks),
        b \in {Absent, JBool(TRUE)}}

\* supplier price updates: the vanity unit at 350.00 EUR, the primer at 7.00
\* EUR by no named supplier, and a material the catalog does not hold
PriceUpdates ==
    {[material_id |-> "vanity_unit_60cm", new_price |-> 3500000,
      supplier_id |-> JStr("SUP-7")],
     [material_id |-> "primer", new_price |-> 70000, supplier_id |-> None],
     [material_id |-> "gold_taps", new_price |-> 9990000,
      supplier_id |-> None]}

\* building ages in whole years, from a building finished this year
Ages == 0..MaxAge

\* pre-VAT amounts handed to the VAT resolver, in 1/10000 EUR: nothing,
\* 250.00 EUR and 217.35 EUR
VatCosts == {0, 2500000, 2173500}

-----------------------------------------------------------------------------
Idle == [op |-> "idle"]

\* the threads that call generate_quote on the one engine
Threads == {1, 2}

\* a thread outside generate_quote; no load_from_file under way
NotStarted == [pc |-> "idle"]
NotLoading == [pc |-> "idle"]

Init ==
    /\ materials = default_materials
    /\ regional_multipliers = default_regional_multipliers
    /\ ties \in {"even", "odd"}
    /\ now = 0
    /\ last = Idle
    /\ prev = Idle
    /\ running = [t \in Threads |-> NotStarted]
    /\ loading = NotLoading

\* the caller takes the result; the component is ready for the next call
Return ==
    /\ last # Idle
    /\ last' = Idle
    /\ prev' = Idle
    /\ UNCHANGED <<materials, regional_multipliers, ties, now,
                   running, loading>>

\* PricingEngine.generate_quote, start to return
GenerateQuote ==
    /\ last = Idle
    /\ \E transcript \in Transcripts, response \in Responses,
          fault \in Faults :
          last' = [op |-> "generate_quote",
                   args |-> [transcript |-> transcript,
                             response |-> response, fault |-> fault],
                   result |-> generate_quote(transcript, response, fault)]
    /\ UNCHANGED <<materials, regional_multipliers, ties, now, prev,
                   running, loading>>

Next == GenerateQuote \/ Return

Spec == Init /\ [][Next]_vars

\* a direct call of LaborCalculator.calculate_task_labor
LaborCall ==
    /\ last = Idle
    /\ \E task_type \in LaborTaskTypes, area \in Areas, region \in Cities,
          factors \in SeqsUpTo(LaborTags, MaxTags), target_date \in Dates,
          rush_job \in BOOLEAN :
          last' = [op |-> "calculate_task_labor",
                   args |-> [task_type |-> task_type, area_or_units |-> area,
                             region |-> region,
                             complexity_factors |-> factors,
                             target_date |-> target_date,
                             rush_job |-> rush_job],
                   result |-> calculate_task_labor(task_type, area, region,
                                  factors, target_date, rush_job)]
    /\ UNCHANGED <<materials, regional_multipliers, ties, now, prev,
                   running, loading>>

NextLabor == LaborCall \/ Return

SpecLabor == Init /\ [][NextLabor]_vars

\* a direct call of VATCalculatorForQuotes.calculate_simple_renovation_vat
VatCall ==
    /\ last = Idle
    /\ \E materials_cost \in VatCosts, labor_cost \in VatCosts,
          building_age_years \in Ages, is_energy_renovation \in BOOLEAN :
          last' = [op |-> "calculate_simple_renovation_vat",
                   args |-> [materials_cost |-> materials_cost,
                             labor_cost |-> labor_cost,
                             building_age_years |-> building_age_years,
                             is_energy_renovation |-> is_energy_renovation],
                   result |-> calculate_simple_renovation_vat(
                                  materials_cost, labor_cost,
                                  building_age_years, is_energy_renovation)]
    /\ UNCHANGED <<materials, regional_multipliers, ties, now, prev,
                   running, loading>>

NextVat == VatCall \/ Return

SpecVat == Init /\ [][NextVat]_vars

\* the configuration tables a call of generate_quote reads
Snapshot ==
    [materials |-> materials, regional_multipliers |-> regional_multipliers]

\* generate_quote on a work order, the caller keeping the result
FirstQuote ==
    /\ last = Idle
    /\ \E w \in RepeatedWorkOrders :
          LET response == [kind |-> "object", data |-> w]
          IN  last' = [op |-> "generate_quote",
                       args |-> [transcript |-> LongTranscript,
                                 response |-> response, fault |-> "none"],
                       config |-> Snapshot,
                       result |-> generate_quote(LongTranscript, response,
                                                 "none")]
    /\ UNCHANGED <<materials, regional_multipliers, ties, now, prev,
                   running, loading>>

\* the clock advances between two calls
Tick ==
    /\ last # Idle
    /\ prev = Idle
    /\ now < MaxNow
    /\ now' = now + 1
    /\ UNCHANGED <<materials, regional_multipliers, ties, last, prev,
                   running, loading>>

\* MaterialDatabase.update_material_price between two calls
UpdateMaterialPrice ==
    /\ last # Idle
    /\ prev = Idle
    /\ \E u \in PriceUpdates :
          materials' = update_material_price(u.material_id, u.new_price,
                                             u.supplier_id).materials
    /\ UNCHANGED <<regional_multipliers, ties, now, last, prev,
                   running, loading>>

\* generate_quote again on the same work order
RepeatQuote ==
    /\ last # Idle
    /\ prev = Idle
    /\ prev' = last
    /\ last' = [op |-> "generate_quote",
                args |-> last.args,
                config |-> Snapshot,
                result |-> generate_quote(last.args.transcript,
                                          last.args.response,
                                          last.args.fault)]
    /\ UNCHANGED <<materials, regional_multipliers, ties, now,
                   running, loading>>

NextRepeat ==
    FirstQuote \/ Tick \/ UpdateMaterialPrice \/ RepeatQuote \/ Return

SpecRepeat == Init /\ [][NextRepeat]_vars

NextFloor == LaborCall \/ GenerateQuote \/ Return

\* the labor calculator called directly and through generate_quote
SpecFloor == Init /\ [][NextFloor]_vars

\* a direct call of MaterialDatabase.get_regional_multiplier
RegionalMultiplierCall ==
    /\ last = Idle
    /\ \E region \in Cities :
          last' = [op |-> "get_regional_multiplier",
                   args |-> [region |-> region],
                   result |-> get_regional_multiplier(region)]
    /\ UNCHANGED <<materials, regional_multipliers, ties, now, prev,
                   running, loading>>

\* a direct call of MaterialDatabase.get_material
GetMaterialCall ==
    /\ last = Idle
    /\ \E material_id \in MaterialIds, region \in Cities :
          /\ last' = [op |-> "get_material",
                   args |-> [material_id |-> material_id, region |-> region],
                   result |-> get_material(material_id, region)]
          /\ materials' = get_material_stored(material_id, region)
    /\ UNCHANGED <<regional_multipliers, ties, now, prev,
                   running, loading>>

NextRegion ==
    LaborCall \/ RegionalMultiplierCall \/ GetMaterialCall \/ Return

\* the lookups of the two regional tables
SpecRegion == Init /\ [][NextRegion]_vars
\* quantities in thousandths of a unit: none, a quarter, one, one and a
\* half, six, a hundred
Quantities == {0, 250, 1000, 1500, 6000, 100000}

\* a direct call of MaterialDatabase.get_cost_with_margin
CostCall ==
    /\ last = Idle
    /\ \E material_id \in MaterialIds, quantity \in Quantities,
          region \in Cities :
          /\ last' = [op |-> "get_cost_with_margin",
                   args |-> [material_id |-> material_id,
                             quantity |-> quantity, region |-> region],
                   result |-> get_cost_with_margin(material_id, quantity,
                                                   region)]
          /\ materials' = get_material_stored(material_id, region)
    /\ UNCHANGED <<regional_multipliers, ties, now, prev,
                   running, loading>>

NextCost == CostCall \/ Return

\* the cost of a quantity of a material
SpecCost == Init /\ [][NextCost]_vars
\* the reference work orders: 4.0 m2 in Marseille, Paris, Lyon or no city,
\* a demolition task alone or with a painting task
ScenarioTasks ==
    {[type |-> "demolition", description |-> Absent,
      complexity_factors |-> Absent],
     [type |-> "painting", description |-> JStr("Repaint walls"),
      complexity_factors |-> JList(<<>>)]}

ScenarioWorkOrders ==
    {[area_sqm |-> JNum(40), city |-> c, tasks |-> JList(l),
      budget_conscious |-> b,
      confidence_score |-> Absent, parsing_method |-> Absent] :
        c \in {Absent, JStr(<<"m", "a", "r", "s", "e", "i", "l", "l", "e">>),
               JStr(<<"p", "a", "r", "i", "s">>), JStr(<<"L", "Y", "O", "N">>)},
        l \in SeqsUpTo(ScenarioTasks, MaxTasks),
        b \in {Absent, JBool(FALSE), JBool(TRUE)}}

\* generate_quote on a reference work order
ScenarioQuote ==
    /\ last = Idle
    /\ \E transcript \in Transcripts, w \in ScenarioWorkOrders :
          LET response == [kind |-> "object", data |-> w]
          IN  last' = [op |-> "generate_quote",
                       args |-> [transcript |-> transcript,
                                 response |-> response, fault |-> "none"],
                       result |-> generate_quote(transcript, response,
                                                 "none")]
    /\ UNCHANGED <<materials, regional_multipliers, ties, now, prev,
                   running, loading>>

NextScenario == ScenarioQuote \/ LaborCall \/ Return

\* the reference work orders priced, and the labor calculator called alone
SpecScenario == Init /\ [][NextScenario]_vars

\* materials handed to add_material: a new id, and an id the catalog holds
AddedMaterials ==
    {[material_id |-> "gold_taps",
      material |-> Material("Gold Taps", "plumbing", "unit",
                            9000000, 30, "premium", 60)],
     [material_id |-> "primer",
      material |-> Material("Primer - Low Odour", "paint", "liter",
                            95000, 20, "standard", 90)]}

\* files handed to load_from_file: one that cannot be opened, one that
\* holds two materials and two multipliers, and one whose second material
\* lacks fields that Material(...) requires
CatalogFiles ==
    {[kind |-> "missing"],
     [kind |-> "object",
      materials |->
          <<[material_id |-> "tile_adhesive", well_formed |-> TRUE,
             material |-> Material("Flexible Tile Adhesive", "consumables",
                                   "kg", 31000, 10, "standard", 95)],
            [material_id |-> "gold_taps", well_formed |-> TRUE,
             material |-> Material("Gold Taps", "plumbing", "unit",
                                   9000000, 30, "premium", 60)]>>,
      regional_multipliers |-> [paris |-> 150, marseille |-> 100]],
     [kind |-> "object",
      materials |->
          <<[material_id |-> "tile_adhesive", well_formed |-> TRUE,
             material |-> Material("Flexible Tile Adhesive", "consumables",
                                   "kg", 31000, 10, "standard", 95)],
            [material_id |-> "primer", well_formed |-> FALSE]>>,
      regional_multipliers |-> [paris |-> 150, marseille |-> 100]]}

\* a direct call of MaterialDatabase.update_material_price
UpdatePriceCall ==
    /\ last = Idle
    /\ \E u \in PriceUpdates :
          /\ materials' = update_material_price(u.material_id, u.new_price,
                                                u.supplier_id).materials
          /\ last' = [op |-> "update_material_price",
                      args |-> u, before |-> Snapshot, at |-> now,
                      result |-> update_material_price(
                                     u.material_id, u.new_price,
                                     u.supplier_id).returned]
    /\ UNCHANGED <<regional_multipliers, ties, now, prev,
                   running, loading>>

\* a direct call of MaterialDatabase.add_material
AddMaterialCall ==
    /\ last = Idle
    /\ \E a \in AddedMaterials :
          /\ materials' = add_material(a.material_id, a.material)
          /\ last' = [op |-> "add_material", args |-> a,
                      before |-> Snapshot, at |-> now, result |-> None]
    /\ UNCHANGED <<regional_multipliers, ties, now, prev,
                   running, loading>>

\* a direct call of MaterialDatabase.load_from_file
LoadFromFileCall ==
    /\ last = Idle
    /\ \E file \in CatalogFiles :
          /\ materials' = load_from_file(file).materials
          /\ regional_multipliers' = load_from_file(file).regional_multipliers
          /\ last' = [op |-> "load_from_file", args |-> [file |-> file],
                      before |-> Snapshot, at |-> now,
                      result |-> load_from_file(file).returned]
    /\ UNCHANGED <<ties, now, prev,
                   running, loading>>

\* get_cost_with_margin for one unit of the material whose price was just
\* updated, the caller keeping the result of the update
CostAfterUpdate ==
    /\ last # Idle
    /\ last.op = "update_material_price"
    /\ prev = Idle
    /\ prev' = last
    /\ \E region \in Cities :
          last' = [op |-> "get_cost_with_margin",
                   args |-> [material_id |-> last.args.material_id,
                             quantity |-> 1000, region |-> region],
                   result |-> get_cost_with_margin(last.args.material_id,
                                                   1000, region)]
    /\ UNCHANGED <<materials, regional_multipliers, ties, now,
                   running, loading>>

NextCatalog ==
    \/ UpdatePriceCall
    \/ AddMaterialCall
    \/ LoadFromFileCall
    \/ CostAfterUpdate
    \/ GetMaterialCall
    \/ Tick
    \/ Return

\* the catalog operations of MaterialDatabase
SpecCatalog == Init /\ [][NextCatalog]_vars

\* get_material again with the same arguments, the caller keeping the
\* first result
RepeatRead ==
    /\ last # Idle
    /\ last.op = "get_material"
    /\ prev = Idle
    /\ prev' = last
    /\ last' = [op |-> "get_material", args |-> last.args,
                result |-> get_material(last.args.material_id,
                                        last.args.region)]
    /\ materials' = get_material_stored(last.args.material_id,
                                        last.args.region)
    /\ UNCHANGED <<regional_multipliers, ties, now,
                   running, loading>>

NextReads ==
    \/ GetMaterialCall
    \/ RepeatRead
    \/ CostCall
    \/ RegionalMultiplierCall
    \/ LaborCall
    \/ VatCall
    \/ GenerateQuote
    \/ Return

\* the read and pricing operations alone, in any order
SpecReads == Init /\ [][NextReads]_vars

NextMissing == LoadFromFileCall \/ FirstQuote \/ Return

\* quotes computed after the catalog was replaced from a file that lacks
\* materials the tasks need
SpecMissing == Init /\ [][NextMissing]_vars

\* work contexts: every work type and property type, or none given; a
\* building age, or none given; the energy-features flag, or none given
WorkContexts ==
    [work_type : {Absent} \cup {JStr(w) : w \in {"renovation",
                      "new_construction", "maintenance", "improvement",
                      "energy_renovation"}},
     property_type : {Absent} \cup {JStr(p) : p \in {"residential_primary",
                          "residential_secondary", "commercial",
                          "social_housing"}},
     building_age_years : {Absent} \cup {JNum(a) : a \in Ages},
     has_energy_features : {Absent, JBool(FALSE), JBool(TRUE)}]

\* item lists: none, materials and labor, and one with an item of neither
\* type (amounts in 1/10000 EUR)
VatItems ==
    {<<>>,
     <<[type |-> "materials", amount |-> 2500000],
       [type |-> "labor", amount |-> 2173500]>>,
     <<[type |-> "labor", amount |-> 2173500],
       [type |-> "delivery", amount |-> 500000],
       [type |-> "labor", amount |-> 2500000]>>}

\* a direct call of VATCalculatorForQuotes.calculate_detailed_vat
DetailedVatCall ==
    /\ last = Idle
    /\ \E items \in VatItems, work_context \in WorkContexts :
          last' = [op |-> "calculate_detailed_vat",
                   args |-> [items |-> items, work_context |-> work_context],
                   result |-> calculate_detailed_vat(items, work_context)]
    /\ UNCHANGED <<materials, regional_multipliers, ties, now, prev,
                   running, loading>>

\* validate_vat_compliance on the rate just resolved and the building age of
\* the same work context, the caller keeping the resolved amounts
ValidateResolved ==
    /\ last # Idle
    /\ last.op = "calculate_detailed_vat"
    /\ prev = Idle
    /\ prev' = last
    /\ last' = [op |-> "validate_vat_compliance",
                args |-> [vat_rate |-> JNum(last.result.vat_rate),
                          building_age_years |->
                              last.args.work_context.building_age_years],
                result |-> validate_vat_compliance(
                               [vat_rate |-> JNum(last.result.vat_rate),
                                building_age_years |->
                                    last.args.work_context.building_age_years])]
    /\ UNCHANGED <<materials, regional_multipliers, ties, now,
                   running, loading>>

NextDetailedVat == DetailedVatCall \/ ValidateResolved \/ Return

\* the detailed VAT path and the validator
SpecDetailedVat == Init /\ [][NextDetailedVat]_vars

-----------------------------------------------------------------------------
(* generate_quote called from several threads on one engine. The engine
   takes no lock and copies nothing: each lookup of a material reads
   self.materials and self.regional_multipliers as they are at that moment.
   A thread may be descheduled between any two lookups; one step below is
   one pass of a loop body. *)

\* the work orders priced by the threads: 4.0 m2 in Paris, the walls
\* painted in two passes, or a sauna (no such task) and a vanity unit
ConcurrentOrders ==
    LET Task(type) == [type |-> type, description |-> Absent,
                       complexity_factors |-> Absent]
    IN  {[area_sqm |-> JNum(40), city |-> JStr(<<"p", "a", "r", "i", "s">>),
          tasks |-> JList(l), budget_conscious |-> Absent,
          confidence_score |-> Absent, parsing_method |-> Absent] :
            l \in {<<Task("painting"), Task("painting")>>,
                   <<Task("sauna"), Task("installation")>>}}

\* a catalog file with the paint and the primer at new prices, and two
\* multipliers
ConcurrentFiles ==
    {[kind |-> "object",
      materials |->
          <<[material_id |-> "bathroom_paint_basic", well_formed |-> TRUE,
             material |-> Material("Bathroom Paint - Basic", "paint",
                                   "liter", 200000, 20, "basic", 95)],
            [material_id |-> "primer", well_formed |-> TRUE,
             material |-> Material("Primer - Low Odour", "paint", "liter",
                                   95000, 20, "standard", 90)]>>,
      regional_multipliers |-> [paris |-> 150, marseille |-> 100]]}

\* the supplier price updates that arrive while quotes are computed: the
\* primer at 7.00 EUR
ConcurrentPriceUpdates == {u \in PriceUpdates : u.material_id = "primer"}

\* thread u is inside generate_quote
Busy(u) == running[u].pc \in {"tasks", "materials"}

\* what one lookup finds in the two tables at the moment it runs
Reading(material_id, city) ==
    [material_id |-> material_id,
     stored |-> Get(materials, material_id, None),
     multiplier |-> IF city = None THEN None
                    ELSE get_regional_multiplier(city.v)]

\* the return of generate_quote: the outcome of the try block through the
\* except clause
Finished(comp, try) ==
    [comp EXCEPT !.pc = "done",
                 !.result = ExceptClause(comp.transcript, try)]

\* the locals of a generate_quote call before its first step; `reads`,
\* `catalogs` and `overlapped` record what the call has seen
Blank(transcript, response) ==
    [pc |-> "tasks", transcript |-> transcript, response |-> response,
     parsed_data |-> None, area |-> None, city |-> None,
     todo |-> <<>>, needs |-> <<>>, materials_list |-> <<>>,
     detailed_tasks |-> <<>>, result |-> None,
     reads |-> <<>>, catalogs |-> {Snapshot}, overlapped |-> FALSE]

\* Step 1 and the head of _generate_detailed_tasks
Started(transcript, response, parsed_data) ==
    IF Raised(parsed_data)
    THEN Finished(Blank(transcript, response), parsed_data)
    ELSE IF DictGet(parsed_data, "tasks", JList(<<>>)) = None
    THEN Finished(Blank(transcript, response),
                  Exception("TypeError", "'NoneType' object is not iterable"))
    ELSE [Blank(transcript, response) EXCEPT
            !.parsed_data = parsed_data,
            !.area = DictGet(parsed_data, "area_sqm", JNum(40)),
            !.city = DictGet(parsed_data, "city",
                         JStr(<<"m", "a", "r", "s", "e", "i", "l", "l", "e">>)),
            !.todo = DictGet(parsed_data, "tasks", JList(<<>>)).v]

\* the head of the loop over tasks: a type the table lacks is skipped
TaskEntered(comp) ==
    IF Head(comp.todo).type \notin DOMAIN engine_task_definitions
    THEN [comp EXCEPT !.todo = Tail(@)]
    ELSE [comp EXCEPT
            !.pc = "materials",
            !.needs = engine_task_definitions[Head(comp.todo).type].materials,
            !.materials_list = <<>>]

\* a materials loop that keeps only the line costed last
MaterialCosted_overwriting(comp, line) ==
    IF Raised(line) THEN Finished(comp, line)
    ELSE [comp EXCEPT
            !.needs = Tail(@),
            !.materials_list = line.value,
            !.reads = Append(@, Reading(Head(comp.needs).material_id,
                                        comp.city))]

\* one pass of the materials loop: materials_list.append(...) unless the
\* lookup reported an error
MaterialCosted(comp, line) ==
    IF Raised(line) THEN Finished(comp, line)
    ELSE [comp EXCEPT
            !.needs = Tail(@),
            !.materials_list = @ \o line.value,
            !.reads = Append(@, Reading(Head(comp.needs).material_id,
                                        comp.city))]

\* the rest of the loop body: the labor call and detailed_tasks.append
TaskPriced(comp, item) ==
    IF Raised(item) THEN Finished(comp, item)
    ELSE [comp EXCEPT !.pc = "tasks",
                      !.todo = Tail(@),
                      !.detailed_tasks = @ \o item.value]

\* the step of thread t recorded: another thread was inside generate_quote
\* while it ran
Stepped(t, comp) ==
    [running EXCEPT
       ![t] = [comp EXCEPT
                 !.overlapped = @ \/ \E u \in Threads \ {t} : Busy(u)]]

\* thread t enters generate_quote and parses the transcript
Begin(t) ==
    /\ running[t].pc = "idle"
    /\ \E w \in ConcurrentOrders :
          running' =
              Stepped(t, Started(ShortTranscript,
                                 [kind |-> "object", data |-> w],
                                 parse_transcript(
                                     ShortTranscript,
                                     [kind |-> "object", data |-> w])))
    /\ UNCHANGED <<materials, regional_multipliers, ties, now, last, prev,
                   loading>>

\* thread t takes the next task of the work order
TaskStep(t) ==
    /\ running[t].pc = "tasks"
    /\ running[t].todo # <<>>
    /\ running' = Stepped(t, TaskEntered(running[t]))
    /\ UNCHANGED <<materials, regional_multipliers, ties, now, last, prev,
                   loading>>

\* thread t costs the next material of its task from the tables as they
\* are now
MaterialStep(t) ==
    /\ running[t].pc = "materials"
    /\ running[t].needs # <<>>
    /\ running' =
           Stepped(t, MaterialCosted(
                          running[t],
                          TaskMaterials(<<Head(running[t].needs)>>,
                                        running[t].area, running[t].city)))
    /\ UNCHANGED <<materials, regional_multipliers, ties, now, last, prev,
                   loading>>

\* thread t prices the labor of its task and appends the line item
LaborStep(t) ==
    /\ running[t].pc = "materials"
    /\ running[t].needs = <<>>
    /\ running' =
           Stepped(t, TaskPriced(
                          running[t],
                          PricedTask(Head(running[t].todo), running[t].area,
                                     running[t].city,
                                     Ok(running[t].materials_list))))
    /\ UNCHANGED <<materials, regional_multipliers, ties, now, last, prev,
                   loading>>

\* thread t computes the final quote, saves it and returns
Finish(t) ==
    /\ running[t].pc = "tasks"
    /\ running[t].todo = <<>>
    /\ running' =
           Stepped(t, Finished(
                          running[t],
                          FinalStep(running[t].parsed_data,
                                    Ok(running[t].detailed_tasks), "none")))
    /\ UNCHANGED <<materials, regional_multipliers, ties, now, last, prev,
                   loading>>

\* the caller on thread t takes the quote
Collect(t) ==
    /\ running[t].pc = "done"
    /\ running' = [running EXCEPT ![t] = NotStarted]
    /\ UNCHANGED <<materials, regional_multipliers, ties, now, last, prev,
                   loading>>

\* update_material_price while no thread is inside generate_quote and no
\* caller holds a quote
QuietPriceUpdate ==
    /\ \A t \in Threads : running[t].pc = "idle"
    /\ \E u \in PriceUpdates :
          materials' = update_material_price(u.material_id, u.new_price,
                                             u.supplier_id).materials
    /\ UNCHANGED <<regional_multipliers, ties, now, last, prev, running,
                   loading>>

NextConcurrent ==
    \/ \E t \in Threads : Begin(t)
    \/ \E t \in Threads : TaskStep(t)
    \/ \E t \in Threads : MaterialStep(t)
    \/ \E t \in Threads : LaborStep(t)
    \/ \E t \in Threads : Finish(t)
    \/ \E t \in Threads : Collect(t)
    \/ QuietPriceUpdate

\* generate_quote on two threads, the catalog changing only while both are
\* outside it
SpecConcurrent == Init /\ [][NextConcurrent]_vars

\* the threads inside generate_quote have the tables `tables` before them
Witnessed(tables) ==
    [t \in Threads |->
        IF Busy(t)
        THEN [running[t] EXCEPT !.catalogs = @ \cup {tables}]
        ELSE running[t]]

\* update_material_price on another thread, at any moment
PriceUpdateStep ==
    /\ \E u \in ConcurrentPriceUpdates :
          /\ materials' = update_material_price(u.material_id, u.new_price,
                                                u.supplier_id).materials
          /\ running' =
                 Witnessed([materials |->
                                update_material_price(
                                    u.material_id, u.new_price,
                                    u.supplier_id).materials,
                            regional_multipliers |-> regional_multipliers])
    /\ UNCHANGED <<regional_multipliers, ties, now, last, prev, loading>>

\* load_from_file on another thread, up to self.materials = {}
LoadBegin ==
    /\ loading.pc = "idle"
    /\ \E file \in ConcurrentFiles :
          loading' = [pc |-> "entries", file |-> file,
                      todo |-> file.materials]
    /\ materials' = EmptyDict
    /\ running' = Witnessed([materials |-> EmptyDict,
                             regional_multipliers |-> regional_multipliers])
    /\ UNCHANGED <<regional_multipliers, ties, now, last, prev>>

\* one pass of the loop of load_from_file: the entry stored, or the
\* exception caught and False returned
LoadEntry ==
    /\ loading.pc = "entries"
    /\ loading.todo # <<>>
    /\ IF Head(loading.todo).well_formed
       THEN /\ materials' = Put(materials, Head(loading.todo).material_id,
                                Head(loading.todo).material)
            /\ loading' = [loading EXCEPT !.todo = Tail(@)]
            /\ running' =
                   Witnessed([materials |->
                                  Put(materials,
                                      Head(loading.todo).material_id,
                                      Head(loading.todo).material),
                              regional_multipliers |-> regional_multipliers])
       ELSE /\ loading' = NotLoading
            /\ UNCHANGED <<materials, running>>
    /\ UNCHANGED <<regional_multipliers, ties, now, last, prev>>

\* the end of load_from_file: the multipliers replaced, True returned
LoadEnd ==
    /\ loading.pc = "entries"
    /\ loading.todo = <<>>
    /\ regional_multipliers' =
           LoadOutcome(loading.file,
                       [materials |-> materials,
                        raised |-> FALSE]).regional_multipliers
    /\ loading' = NotLoading
    /\ running' =
           Witnessed([materials |-> materials,
                      regional_multipliers |->
                          LoadOutcome(loading.file,
                                      [materials |-> materials,
                                       raised |-> FALSE]).regional_multipliers])
    /\ UNCHANGED <<materials, ties, now, last, prev>>

NextConcurrentUpdates ==
    \/ Begin(1)
    \/ TaskStep(1)
    \/ MaterialStep(1)
    \/ LaborStep(1)
    \/ Finish(1)
    \/ Collect(1)
    \/ PriceUpdateStep
    \/ LoadBegin
    \/ LoadEntry
    \/ LoadEnd

\* generate_quote on one thread while the catalog is updated and reloaded
\* on others
SpecConcurrentUpdates == Init /\ [][NextConcurrentUpdates]_vars

-----------------------------------------------------------------------------
(* Properties of generate_quote, checked under Spec *)

\* generate_quote has returned and its result is still with the caller
QuoteReturned == last.op = "generate_quote"

\* the record is a Quote: it has every field of the dataclass
IsQuote(q) ==
    DOMAIN q = {"project_id", "zone", "city", "total_area_sqm", "tasks",
                "subtotal_materials", "subtotal_labor", "vat_amount",
                "total_price", "margin_percentage", "confidence_score",
                "parsing_method", "created_at"}

\* the fixed values of the fallback Quote, with `message` on its one line
IsFallback(q, message) ==
    /\ q.zone = "bathroom"
    /\ q.total_area_sqm = JNum(40)
    /\ Len(q.tasks) = 1
    /\ q.tasks[1].task_type = "general_renovation"
    /\ "error" \in DOMAIN q.tasks[1]
    /\ q.tasks[1].error = message
    /\ q.margin_percentage = 20
    /\ q.confidence_score = 10
    /\ q.parsing_method = "fallback"
    /\ q.total_price = 220000

\* C1: generate_quote never fails outward: whatever the input and whichever
\* step raises (parsing, task expansion with its material and labor
\* pricing, the final computation with VAT, saving), the call returns a
\* Quote and no exception reaches the caller.
C1_NeverFailsOutward ==
    QuoteReturned =>
        /\ ~Raised(last.result)
        /\ IsQuote(last.result.quote)

\* C1 witness: material costing raised (a null city has no lower()) and a
\* Quote came back
C1_Witness ==
    /\ QuoteReturned
    /\ ~Raised(last.result)
    /\ last.result.caught # None
    /\ last.result.caught.exception = "AttributeError"
    /\ IsQuote(last.result.quote)

\* some step of the call failed: an exception reached the handler of
\* generate_quote, or saving the Quote failed
AnyInternalFailure ==
    \/ last.result.caught # None
    \/ /\ last.result.save # None
       /\ ~last.result.save.saved

\* C2 as stated: whenever any internal failure occurs during generate_quote,
\* the returned Quote is the fallback (zone "bathroom", area 4.0, one
\* placeholder line, margin 0.20, confidence 0.1, method "fallback", total
\* 2200.0).
C2_AnyFailureGivesFallback ==
    (QuoteReturned /\ AnyInternalFailure) =>
        /\ last.result.quote.parsing_method = "fallback"
        /\ last.result.quote.confidence_score = 10
        /\ last.result.quote.total_price = 220000

\* C2 amended: whenever an exception reaches the handler of generate_quote
\* (raised by parsing, task expansion or the final computation), the
\* returned Quote is the fallback: zone "bathroom", area 4.0, exactly one
\* placeholder line item carrying str(e), margin 0.20, confidence 0.1,
\* method "fallback", total 2200.0, whatever the input; a failure to save
\* is not such a failure, and the computed Quote is returned.
C2_CaughtFailureGivesFallback ==
    QuoteReturned =>
        /\ last.result.caught # None =>
              IsFallback(last.result.quote, last.result.caught.message)
        /\ (last.result.caught = None /\ ~last.result.save.saved) =>
              /\ last.result.quote.parsing_method # "fallback"
              /\ last.result.quote.project_id.prefix = "BTH_"

\* C2 witness: the service answered a work order whose task list is null,
\* and the fallback carries the TypeError's text
C2_Witness ==
    /\ QuoteReturned
    /\ last.args.response.kind = "object"
    /\ last.args.response.data.tasks = None
    /\ last.args.fault = "none"
    /\ last.result.caught # None
    /\ IsFallback(last.result.quote,
                  "object of type 'NoneType' has no len()")

\* C3: a returned Quote has parsing method "fallback" and confidence 0.1 if
\* and only if the fallback path produced it; no computed Quote carries
\* either value, whatever the work order supplies for the two keys.
C3_FallbackTellsApart ==
    QuoteReturned =>
        LET q == last.result.quote
            fallback_path == last.result.caught # None
        IN  /\ (q.parsing_method = "fallback" /\ q.confidence_score = 10)
                  <=> fallback_path
            /\ ~fallback_path =>
                  /\ q.parsing_method # "fallback"
                  /\ q.confidence_score # 10

\* C3 witness: the work order itself said method "fallback" and confidence
\* 0.1, and the Quote computed from it says "openai"
C3_Witness ==
    /\ QuoteReturned
    /\ last.args.response.kind = "object"
    /\ last.args.response.data.parsing_method = JStr("fallback")
    /\ last.args.response.data.confidence_score = JNum(10)
    /\ last.result.caught = None
    /\ last.result.quote.parsing_method = "openai"
    /\ last.result.quote.tasks # <<>>

\* the work order is marked budget-conscious
BudgetConscious(response) ==
    /\ response.kind = "object"
    /\ Truthy(response.data.budget_conscious)

\* C4 as stated: for every Quote generate_quote returns, the margin is 0.15
\* if and only if the work order is budget-conscious, and 0.25 otherwise.
C4_MarginOfEveryQuote ==
    QuoteReturned =>
        /\ last.result.quote.margin_percentage = 15
              <=> BudgetConscious(last.args.response)
        /\ last.result.quote.margin_percentage \in {15, 25}

\* C4 amended: for every Quote that generate_quote computes (every Quote
\* but the fallback), the margin is 0.15 if and only if the work order is
\* budget-conscious, and 0.25 otherwise; the fallback Quote carries 0.20
\* whatever the flag.
C4_MarginOfComputedQuote ==
    QuoteReturned =>
        IF last.result.caught = None
        THEN /\ last.result.quote.margin_percentage = 15
                   <=> BudgetConscious(last.args.response)
             /\ last.result.quote.margin_percentage \in {15, 25}
        ELSE last.result.quote.margin_percentage = 20

\* C4 witness: a budget-conscious work order priced at 15% with a line item
C4_Witness ==
    /\ QuoteReturned
    /\ BudgetConscious(last.args.response)
    /\ last.result.caught = None
    /\ last.result.quote.margin_percentage = 15
    /\ last.result.quote.subtotal_labor > 0

-----------------------------------------------------------------------------
(* Properties of the simple VAT path, checked under SpecVat *)

VatReturned == last.op = "calculate_simple_renovation_vat"

\* C5: the simple VAT path picks its rate by first match, for every
\* building age and energy flag: energy renovation and age >= 2 gives 5.5%;
\* otherwise age >= 2 gives 10%; otherwise 20%.  Without the energy flag
\* ages 0 and 1 get 20% and every age >= 2 gets 10%; an energy renovation
\* of a building younger than 2 years still gets 20%.
C5_SimpleVatTiers ==
    VatReturned =>
        LET age    == last.args.building_age_years
            energy == last.args.is_energy_renovation
            rate   == last.result.vat_rate
        IN  /\ (energy /\ age >= 2) => rate = 55
            /\ (~energy /\ age >= 2) => rate = 100
            /\ age < 2 => rate = 200
            /\ (~energy /\ age \in {0, 1}) => rate = 200
            /\ rate \in {55, 100, 200}

\* C5 witness: an energy renovation of a one-year-old building, charged 20%
C5_Witness ==
    /\ VatReturned
    /\ last.args.is_energy_renovation
    /\ last.args.building_age_years = 1
    /\ last.args.materials_cost + last.args.labor_cost > 0
    /\ last.result.vat_rate = 200

-----------------------------------------------------------------------------
(* Properties of the amounts of a computed Quote, checked under Spec *)

\* (materials subtotal + labor subtotal) x (1 + margin), in 1/10000 EUR
SubtotalWithMargin(q) ==
    (q.subtotal_materials + q.subtotal_labor) * (100 + q.margin_percentage)

\* the cents nearest to x * r / 1000, for x in 1/10000 EUR and r per mille:
\* one value, or the two neighbours when the amount lies half-way
NearestCents(x, r) ==
    LET a     == x \div 100000
        b     == x % 100000
        whole == a * r + (b * r) \div 100000
        rem   == (b * r) % 100000
    IN  IF rem < 50000 THEN {whole}
        ELSE IF rem > 50000 THEN {whole + 1}
        ELSE {whole, whole + 1}

\* the rates of the VAT table
VatRates == {vat_rates[k] : k \in DOMAIN vat_rates}

-----------------------------------------------------------------------------
(* Idempotence, checked under SpecRepeat *)

\* the four amounts of a Quote
Amounts(q) ==
    <<q.subtotal_materials, q.subtotal_labor, q.vat_amount, q.total_price>>

\* two calls have returned, the second on the work order of the first
CalledTwice ==
    /\ prev # Idle
    /\ prev.op = "generate_quote"
    /\ last.op = "generate_quote"
    /\ prev.args = last.args

\* C7: two generate_quote calls with the same work order against the same
\* configuration snapshot return the same materials subtotal, labor
\* subtotal, VAT amount and total price; identifier and timestamp may
\* differ.
C7_Idempotence ==
    (CalledTwice /\ prev.config = last.config) =>
        Amounts(prev.result.quote) = Amounts(last.result.quote)

\* C7 witness: the same work order priced twice against one snapshot, a
\* clock tick apart: the amounts agree and are not zero, the identifiers
\* differ
C7_Witness ==
    /\ CalledTwice
    /\ prev.config = last.config
    /\ prev.result.caught = None
    /\ last.result.quote.subtotal_materials > 0
    /\ last.result.quote.subtotal_labor > 0
    /\ Amounts(prev.result.quote) = Amounts(last.result.quote)
    /\ prev.result.quote.project_id # last.result.quote.project_id

-----------------------------------------------------------------------------
(* Properties of the labor calculator, checked under SpecLabor (C8),       *)
(* SpecFloor (C9) and SpecRegion (C10)                                     *)

\* calculate_task_labor has returned a result for a task type it knows
LaborPriced ==
    /\ last.op = "calculate_task_labor"
    /\ ~HasError(last.result)

\* the product of the multipliers the result lists as applied, as a
\* numerator over 10^decimals
RECURSIVE ListedProduct(_)
ListedProduct(applied) ==
    IF applied = <<>> THEN [num |-> 1, decimals |-> 0]
    ELSE LET rest == ListedProduct(Tail(applied))
         IN  [num |-> Head(applied).multiplier * rest.num,
              decimals |-> rest.decimals + 1]

\* the multiplier a table lists for the city whatever its letter case, 1.0
\* for a city it does not list (hundredths)
ListedOrOne(table, region) ==
    IF lower(region) \in DOMAIN table THEN table[lower(region)] ELSE 100

\* C8: labor pricing of one task follows the ordered steps, for every
\* recognized task type, area, region, tag list, date and rush flag:
\* baseHours = area x hoursPerUnit; billableHours = max(baseHours,
\* minimumHours); finalHours = billableHours x complexityMultiplier;
\* hourlyRate = skill base rate x regional labor multiplier x seasonal
\* multiplier (1.0 without a date) x (1.8 if rush else 1.0); laborCost =
\* finalHours x hourlyRate.  The result reports each step rounded (hours to
\* one decimal, money to two).
C8_LaborSteps ==
    LaborPriced =>
        LET a  == last.args
            r  == last.result
            d  == labor_task_definitions[a.task_type]
            \* hours over 100
            baseHours     == a.area_or_units * d.hours_per_sqm
            minimumHours  == d.minimum_hours * 10
            billableHours == IF baseHours > minimumHours
                             THEN baseHours ELSE minimumHours
            complexity    == ListedProduct(r.applied_complexity_factors)
            \* hours over 10^(2 + complexity.decimals)
            finalHours    == billableHours * complexity.num
            regional      == ListedOrOne(labor_regional_multipliers, a.region)
            seasonal      == IF a.target_date = None THEN 100
                             ELSE seasonal_multipliers[a.target_date.month]
            rush          == IF a.rush_job THEN 18 ELSE 10
            \* EUR over 10^7
            hourlyRate    ==
                Times(Times(Times(Digits(base_rates[d.skill_level]),
                                  regional), seasonal), rush)
            \* EUR over 10^(9 + complexity.decimals)
            laborCost     == Times(hourlyRate, finalHours)
        IN  /\ r.base_hours = Round(Digits(baseHours), 2, 1)
            /\ r.billable_hours = Round(Digits(billableHours), 2, 1)
            /\ r.final_hours
                  = Round(Digits(finalHours), 2 + complexity.decimals, 1)
            /\ r.final_hourly_rate = Round(hourlyRate, 7, 2)
            /\ r.base_labor_cost
                  = Round(laborCost, 9 + complexity.decimals, 2)

\* C8 witness: a rush job with a target date in a listed city, an applied
\* tag and an area above the minimum
C8_Witness ==
    /\ LaborPriced
    /\ last.args.rush_job
    /\ last.args.target_date # None
    /\ last.result.seasonal_multiplier # 100
    /\ last.result.regional_multiplier # 100
    /\ last.result.applied_complexity_factors # <<>>
    /\ last.result.base_hours
          > labor_task_definitions[last.args.task_type].minimum_hours
    /\ last.result.base_labor_cost > 0

\* C9: for every task type and every area >= 0 the billable hours the
\* labor calculator computes are at least the task type's minimum hours,
\* and so are the labor hours of every line item of a computed Quote.
C9_MinimumFloor ==
    /\ (LaborPriced /\ last.args.area_or_units >= 0) =>
          last.result.billable_hours
              >= labor_task_definitions[last.args.task_type].minimum_hours
    /\ (QuoteReturned /\ last.result.caught = None) =>
          \A i \in DOMAIN last.result.quote.tasks :
              LET item == last.result.quote.tasks[i]
              IN  /\ item.task_type \in DOMAIN labor_task_definitions
                  /\ item.labor_hours
                        >= labor_task_definitions[item.task_type].minimum_hours

\* C9 witness: an area of zero, billed at the minimum hours of the task
C9_Witness ==
    /\ LaborPriced
    /\ last.args.area_or_units = 0
    /\ last.result.base_hours = 0
    /\ last.result.billable_hours
          = labor_task_definitions[last.args.task_type].minimum_hours
    /\ last.result.billable_hours > 0

\* C10: a city that a regional table does not list gets the multiplier 1.0
\* without an error, in the labor table and in the material table; the
\* lookup lowercases the name, so a listed city in any letter case gets its
\* listed multiplier.
C10_RegionalMultiplier ==
    /\ (/\ last.op = "calculate_task_labor"
        /\ last.args.task_type \in DOMAIN labor_task_definitions) =>
              /\ ~HasError(last.result)
              /\ last.result.regional_multiplier
                    = ListedOrOne(labor_regional_multipliers, last.args.region)
    /\ last.op = "get_regional_multiplier" =>
          last.result = ListedOrOne(regional_multipliers, last.args.region)
    /\ (/\ last.op = "get_material"
        /\ last.args.material_id \in DOMAIN materials) =>
              /\ last.result # None
              /\ last.result.base_cost * 100
                    = materials[last.args.material_id].base_cost
                        * ListedOrOne(regional_multipliers, last.args.region)

\* C10 witness: the labor calculator priced a task in a city no table
\* lists, at the multiplier 1.0
C10_Witness ==
    /\ LaborPriced
    /\ lower(last.args.region) \notin DOMAIN labor_regional_multipliers
    /\ lower(last.args.region) \notin DOMAIN regional_multipliers
    /\ last.result.regional_multiplier = 100
    /\ last.result.base_labor_cost > 0

-----------------------------------------------------------------------------
(* Properties of the material costs, checked under SpecCost *)

\* get_cost_with_margin has returned the cost of a catalog material
CostPriced ==
    /\ last.op = "get_cost_with_margin"
    /\ ~HasError(last.result)

\* 1000 x (cost(m, q, city).totalCost - cost(m, 1, city).totalCost x q) in
\* cents, q being in thousandths
LinearityGap ==
    LET q    == last.args.quantity
        unit == get_cost_with_margin(last.args.material_id, 1000,
                                     last.args.region).total_cost
        gap  == 1000 * (last.result.total_cost - unit * (q \div 1000))
                    - unit * (q % 1000)
    IN  IF gap < 0 THEN 0 - gap ELSE gap

\* C11 as stated: for every catalog material m, city and quantity q >= 0,
\* cost(m, q, city).totalCost equals cost(m, 1, city).totalCost x q within
\* rounding tolerance: the two differ by at most the one cent to which the
\* amounts are rounded.
C11_LinearWithinOneCent ==
    (CostPriced /\ last.args.quantity >= 0) => LinearityGap <= 1000

\* C11 amended: for every catalog material m, city and quantity q >= 0,
\* cost(m, q, city).totalCost differs from cost(m, 1, city).totalCost x q
\* by at most half a cent x (q + 1): the rounding of the unit cost is
\* multiplied by q, the rounding of the total is not.
C11_LinearWithinScaledRounding ==
    (CostPriced /\ last.args.quantity >= 0) =>
        2 * LinearityGap <= last.args.quantity + 1000

\* C11 witness: six units of a material whose unit cost in the city is not
\* a whole number of cents, so that the two sides differ
C11_Witness ==
    /\ CostPriced
    /\ last.args.quantity = 6000
    /\ last.result.total_cost > 0
    /\ LinearityGap > 0
    /\ 2 * LinearityGap <= last.args.quantity + 1000

-----------------------------------------------------------------------------
(* The reference scenario, checked under SpecScenario *)

\* the work order of the scenario: 4.0 m2, one demolition task, not
\* budget-conscious, in the city named
ScenarioOrder(city) ==
    /\ QuoteReturned
    /\ last.args.response.data.area_sqm = JNum(40)
    /\ last.args.response.data.city = JStr(city)
    /\ last.args.response.data.tasks.v
          = <<[type |-> "demolition", description |-> Absent,
               complexity_factors |-> Absent]>>
    /\ ~BudgetConscious(last.args.response)

\* the labor calculator asked for the task of the scenario in the city
ScenarioLabor(city) ==
    /\ LaborPriced
    /\ last.args.task_type = "demolition"
    /\ last.args.area_or_units = 40
    /\ last.args.region = city
    /\ last.args.complexity_factors = <<>>
    /\ last.args.target_date = None
    /\ ~last.args.rush_job

\* C12: area 4.0, one demolition task, not budget-conscious.  In Marseille:
\* labor hours 6.0, hourly rate 30.0, labor cost 180.0, materials cost 22.0,
\* VAT 10% of the margin-inflated subtotal (25.25 on 252.50).  In Paris:
\* labor cost 261.0 by the labor multiplier 1.45, and the material's base
\* cost 5.0 scaled by the material multiplier 1.35.
C12_ReferenceScenario ==
    /\ ScenarioOrder(<<"m", "a", "r", "s", "e", "i", "l", "l", "e">>) =>
          LET q == last.result.quote
          IN  /\ last.result.caught = None
              /\ Len(q.tasks) = 1
              /\ q.tasks[1].labor_hours = 60
              /\ q.tasks[1].labor_cost = 18000
              /\ q.tasks[1].materials_cost = 2200
              /\ q.margin_percentage = 25
              /\ q.vat_amount = 2525
              /\ q.vat_amount * 1000 = SubtotalWithMargin(q)
              /\ q.total_price = 27775
    /\ ScenarioLabor(<<"m", "a", "r", "s", "e", "i", "l", "l", "e">>) =>
          /\ last.result.billable_hours = 60
          /\ last.result.final_hourly_rate = 3000
          /\ last.result.base_labor_cost = 18000
    /\ ScenarioOrder(<<"p", "a", "r", "i", "s">>) =>
          LET q == last.result.quote
          IN  /\ last.result.caught = None
              /\ Len(q.tasks) = 1
              /\ q.tasks[1].labor_hours = 60
              /\ q.tasks[1].labor_cost = 26100
              /\ Len(q.tasks[1].materials) = 1
              /\ q.tasks[1].materials[1].unit_cost = 67500
              /\ q.tasks[1].materials[1].unit_cost * 100
                    = materials.demolition_materials.base_cost * 135
    /\ ScenarioLabor(<<"P", "a", "r", "i", "s">>) =>
          /\ last.result.regional_multiplier = 145
          /\ last.result.final_hourly_rate = 4350
          /\ last.result.base_labor_cost = 26100

\* C12 witness: the scenario priced in Paris at labor cost 261.0
C12_Witness ==
    /\ ScenarioOrder(<<"p", "a", "r", "i", "s">>)
    /\ last.result.caught = None
    /\ last.result.quote.subtotal_labor = 26100
    /\ last.result.quote.subtotal_materials = 2970

-----------------------------------------------------------------------------
(* Incomplete work orders, checked under Spec *)

\* the service answered a JSON object with no null value, and no other
\* fault struck the call
SoundOrder ==
    /\ QuoteReturned
    /\ last.args.response.kind = "object"
    /\ last.args.fault = "none"
    /\ last.args.response.data.area_sqm # None
    /\ last.args.response.data.city # None
    /\ last.args.response.data.tasks # None

\* the amounts generate_quote returns for the work order of `last` with one
\* key set to a value
AmountsWith(key, value) ==
    Amounts(generate_quote(
                last.args.transcript,
                [kind |-> "object",
                 data |-> [last.args.response.data EXCEPT ![key] = value]],
                last.args.fault).quote)

\* C13: a work order with no area is priced with area 4.0, one with no city
\* for "marseille", one with no task list as an empty task list; each time
\* generate_quote returns a computed Quote, not the fallback.
C13_MissingKeysDefaulted ==
    SoundOrder =>
        LET w == last.args.response.data
            q == last.result.quote
        IN  /\ last.result.caught = None
            /\ q.parsing_method # "fallback"
            /\ w.area_sqm = Absent =>
                  /\ q.total_area_sqm = JNum(40)
                  /\ \A i \in DOMAIN q.tasks : q.tasks[i].area_sqm = 40
                  /\ Amounts(q) = AmountsWith("area_sqm", JNum(40))
            /\ w.city = Absent =>
                  /\ q.city = JStr(<<"m", "a", "r", "s", "e", "i", "l", "l", "e">>)
                  /\ Amounts(q)
                        = AmountsWith("city",
                              JStr(<<"m", "a", "r", "s", "e", "i", "l", "l", "e">>))
            /\ w.tasks = Absent =>
                  /\ q.tasks = <<>>
                  /\ Amounts(q) = <<0, 0, 0, 0>>

\* C13 witness: a work order with tasks but neither area nor city, priced
\* at 4.0 m2
C13_Witness ==
    /\ SoundOrder
    /\ last.args.response.data.area_sqm = Absent
    /\ last.args.response.data.city = Absent
    /\ last.result.caught = None
    /\ last.result.quote.tasks # <<>>
    /\ last.result.quote.tasks[1].area_sqm = 40
    /\ last.result.quote.subtotal_labor > 0

-----------------------------------------------------------------------------
(* The empty task list, checked under Spec *)

\* the service answered a work order whose task list is the empty list,
\* and no other fault struck the call
EmptyTaskList ==
    /\ QuoteReturned
    /\ last.args.response.kind = "object"
    /\ last.args.fault = "none"
    /\ last.args.response.data.tasks = JList(<<>>)

\* C14 as stated: a work order whose task list is empty causes a downstream
\* fault inside generate_quote, so the returned Quote is the fallback
\* (parsing method "fallback", confidence 0.1, total price 2200.0).
C14_EmptyTaskListGivesFallback ==
    EmptyTaskList =>
        /\ last.result.caught # None
        /\ last.result.quote.parsing_method = "fallback"
        /\ last.result.quote.confidence_score = 10
        /\ last.result.quote.total_price = 220000

\* C14 amended: a work order whose task list is empty causes no fault
\* inside generate_quote: the returned Quote is a computed one with no line
\* item, subtotals, VAT and total price 0.0, parsing method "openai" and the
\* parser's confidence (at least 0.3), not the fallback.
C14_EmptyTaskListGivesEmptyQuote ==
    EmptyTaskList =>
        /\ last.result.caught = None
        /\ last.result.quote.tasks = <<>>
        /\ Amounts(last.result.quote) = <<0, 0, 0, 0>>
        /\ last.result.quote.parsing_method = "openai"
        /\ last.result.quote.confidence_score >= 30

\* C14 witness: an empty task list answered with a Quote of total 0.0 that
\* was saved
C14_Witness ==
    /\ EmptyTaskList
    /\ last.result.caught = None
    /\ last.result.quote.total_price = 0
    /\ last.result.quote.project_id.prefix = "BTH_"
    /\ last.result.save.saved

-----------------------------------------------------------------------------
(* Unrecognized task types, checked under SpecFloor *)

\* the type is in the orchestrator's table and, without its underscores, in
\* the labor calculator's
Recognized(task) ==
    /\ task.type \in DOMAIN engine_task_definitions
    /\ replace_underscores(task.type) \in DOMAIN labor_task_definitions

\* C15: a requested task whose type the orchestrator's table or the labor
\* calculator's table does not hold is skipped without failing: the labor
\* calculator returns an unknown-task-type failure value, the Quote has no
\* line item for the task, every other requested task is priced as it is
\* without the skipped ones, and the Quote is not the fallback.
C15_UnknownTaskSkipped ==
    /\ (/\ last.op = "calculate_task_labor"
        /\ last.args.task_type \notin DOMAIN labor_task_definitions) =>
              /\ HasError(last.result)
              /\ last.result.error = <<"Unknown task type", last.args.task_type>>
    /\ (SoundOrder /\ last.args.response.data.tasks # Absent) =>
          LET requested == last.args.response.data.tasks.v
              priced    == SelectSeq(requested, Recognized)
              q         == last.result.quote
          IN  /\ last.result.caught = None
              /\ q.parsing_method # "fallback"
              /\ Len(q.tasks) = Len(priced)
              /\ \A i \in DOMAIN q.tasks :
                    q.tasks[i].task_type = priced[i].type
              /\ Amounts(q) = AmountsWith("tasks", JList(priced))

\* C15 witness: a task of an unknown type requested before a known one, and
\* the Quote has the known one alone
C15_Witness ==
    /\ SoundOrder
    /\ last.args.response.data.tasks # Absent
    /\ Len(last.args.response.data.tasks.v) = 2
    /\ ~Recognized(last.args.response.data.tasks.v[1])
    /\ Recognized(last.args.response.data.tasks.v[2])
    /\ last.result.caught = None
    /\ Len(last.result.quote.tasks) = 1
    /\ last.result.quote.subtotal_labor > 0

-----------------------------------------------------------------------------
(* Properties of the catalog operations, checked under SpecCatalog *)

\* update_material_price has returned: `materials` is the catalog it left
PriceUpdated == last.op = "update_material_price"

\* the fields of a Material that a price update does not write
KeptFields ==
    {"name", "category", "unit", "supplier_margin", "quality_grade",
     "availability_score"}

\* C16: update_material_price on an id the catalog lacks returns False and
\* leaves the whole catalog as it was; on a known id it changes that
\* material's base cost and last-updated timestamp, and its supplier id
\* when one is given, and nothing else: every other material and the
\* regional multipliers stay as they were, and a following cost call is
\* priced at the new base cost.
C16_PriceUpdateFrame ==
    /\ PriceUpdated =>
          LET before == last.before.materials
              id     == last.args.material_id
          IN  /\ regional_multipliers = last.before.regional_multipliers
              /\ DOMAIN materials = DOMAIN before
              /\ \A other \in DOMAIN before \ {id} :
                    materials[other] = before[other]
              /\ last.result = (id \in DOMAIN before)
              /\ id \in DOMAIN before =>
                    /\ materials[id].base_cost = last.args.new_price
                    /\ materials[id].last_updated = last.at
                    /\ materials[id].supplier_id
                          = IF Truthy(last.args.supplier_id)
                            THEN last.args.supplier_id
                            ELSE before[id].supplier_id
                    /\ \A f \in KeptFields : materials[id][f] = before[id][f]
    /\ (/\ prev # Idle
        /\ prev.op = "update_material_price"
        /\ last.op = "get_cost_with_margin") =>
              IF prev.result
              THEN /\ ~HasError(last.result)
                   /\ last.result.unit_cost * 100
                         = prev.args.new_price
                             * ListedOrOne(regional_multipliers,
                                           last.args.region)
              ELSE HasError(last.result)

\* C16 witness: a known material repriced a second after the catalog was
\* seeded, by a named supplier, and one unit of it costed in a listed city
C16_Witness ==
    /\ prev # Idle
    /\ prev.op = "update_material_price"
    /\ prev.result
    /\ prev.at > 0
    /\ Truthy(prev.args.supplier_id)
    /\ prev.before.materials[prev.args.material_id].base_cost
          # prev.args.new_price
    /\ last.op = "get_cost_with_margin"
    /\ last.result.unit_cost > prev.args.new_price

\* C17: materials are never deleted: no catalog operation (price update,
\* add material, bulk load from file) removes a material id, so after any
\* sequence of them every id that was in the catalog before is still in it.
C17_MaterialsNeverDeleted ==
    [][DOMAIN materials \subseteq DOMAIN materials']_vars

-----------------------------------------------------------------------------
(* Read and pricing operations, checked under SpecReads *)

\* C18: read and pricing operations have no side effect on the
\* configuration: after any sequence of material lookups and costings,
\* labor pricings, VAT computations and generate_quote calls the material
\* catalog and the regional multipliers are as they were seeded; the
\* regional multiplier applied on read does not alter the stored base cost,
\* so a repeated read of a material returns the same price.
C18_ReadsLeaveConfiguration ==
    /\ materials = default_materials
    /\ regional_multipliers = default_regional_multipliers
    /\ (/\ last.op = "get_material"
        /\ last.args.material_id \in DOMAIN default_materials) =>
              last.result.base_cost * 100
                  = default_materials[last.args.material_id].base_cost
                      * ListedOrOne(default_regional_multipliers,
                                    last.args.region)
    /\ (/\ prev # Idle
        /\ prev.op = "get_material"
        /\ last.op = "get_material"
        /\ prev.args = last.args) => prev.result = last.result

\* C18 witness: a material read twice in a city whose multiplier is not
\* 1.0: both reads return the regional price, the stored base cost differs
\* from it
C18_Witness ==
    /\ prev # Idle
    /\ prev.op = "get_material"
    /\ last.op = "get_material"
    /\ prev.args = last.args
    /\ last.result # None
    /\ prev.result.base_cost = last.result.base_cost
    /\ last.result.base_cost > materials[last.args.material_id].base_cost

-----------------------------------------------------------------------------
(* Concurrent computations, checked under SpecConcurrent and
   SpecConcurrentUpdates *)

\* generate_quote of thread t has returned
ThreadDone(t) == running[t].pc = "done"

\* C19: when generate_quote computations of several threads interleave
\* step by step against the same configuration, and no price update, add or
\* reload runs while any of them is under way, each returns the subtotals,
\* the VAT amount and the total that the same call returns when it runs
\* alone from start to return.
C19_InterleavedQuotesAsAlone ==
    \A t \in Threads :
        ThreadDone(t) =>
            Amounts(running[t].result.quote)
                = Amounts(generate_quote(running[t].transcript,
                                         running[t].response, "none").quote)

\* C19 witness: thread 1 has returned a computed quote with two line items
\* after steps taken while thread 2 was inside generate_quote, and thread 2
\* is between two material lookups
C19_Witness ==
    /\ ThreadDone(1)
    /\ running[1].overlapped
    /\ running[1].result.caught = None
    /\ Len(running[1].result.quote.tasks) = 2
    /\ running[1].result.quote.subtotal_materials > 0
    /\ running[2].pc = "materials"
    /\ Len(running[2].reads) = 1

\* every lookup of the computation found what the tables `tables` hold
ReadFrom(comp, tables) ==
    \A i \in DOMAIN comp.reads :
        /\ comp.reads[i].stored
               = Get(tables.materials, comp.reads[i].material_id, None)
        /\ comp.reads[i].multiplier
               = Get(tables.regional_multipliers, lower(comp.city.v), 100)

\* C20: every material price used within one generate_quote computation
\* comes from one single state of the catalog, also when
\* update_material_price or load_from_file runs at the same time: among the
\* states the tables went through during the computation there is one that
\* every lookup of the computation agrees with.
C20_OneCatalogStatePerQuote ==
    \A t \in Threads :
        ThreadDone(t) =>
            \E tables \in running[t].catalogs : ReadFrom(running[t], tables)

-----------------------------------------------------------------------------
(* Identifiers, checked under SpecRepeat *)

\* C21: the Quote identifier is unique per call: two generate_quote calls,
\* computed or fallback, also when both are made within the same second of
\* the wall clock, return Quotes with different identifiers, so the file
\* saved under the identifier of one is not overwritten by the other.
C21_IdentifierUniquePerCall ==
    CalledTwice =>
        prev.result.quote.project_id # last.result.quote.project_id

-----------------------------------------------------------------------------
(* Complexity factors, checked under SpecLabor *)

\* the tags of a list, as a set
TagSet(factors) == {factors[i] : i \in DOMAIN factors}

\* the product of the configured multipliers of a set of known tags, as a
\* numerator over 10^Cardinality(tags)
RECURSIVE TagSetProduct(_, _)
TagSetProduct(known, tags) ==
    IF tags = {} THEN 1
    ELSE LET f == CHOOSE g \in tags : TRUE
         IN  known[f] * TagSetProduct(known, tags \ {f})

\* C22: the complexity multiplier of a task is the product of the task's
\* configured factors over the set of supplied tags that the task
\* definition knows: a tag the task does not define contributes nothing
\* and raises no error, the order of the tags does not matter, and a known
\* tag that appears more than once in the list is counted once.  The final
\* hours are the billable hours times that multiplier.
C22_ComplexityOverTagSet ==
    LaborPriced =>
        LET a     == last.args
            r     == last.result
            d     == labor_task_definitions[a.task_type]
            tags  == TagSet(a.complexity_factors)
                         \cap DOMAIN d.complexity_factors
            k     == Cardinality(tags)
            p     == TagSetProduct(d.complexity_factors, tags)
            hours == IF a.area_or_units * d.hours_per_sqm
                            > d.minimum_hours * 10
                     THEN a.area_or_units * d.hours_per_sqm
                     ELSE d.minimum_hours * 10
        IN  /\ r.complexity_multiplier = Round(Digits(p), k, 2)
            /\ r.final_hours = Round(Digits(hours * p), 2 + k, 1)

-----------------------------------------------------------------------------
(* Line items, checked under Spec *)

\* the quote of `last` was computed, not the fallback
QuoteComputed ==
    /\ QuoteReturned
    /\ last.result.caught = None

\* what the labor calculator reports for the task of a line item
LineLabor(q, line) ==
    calculate_task_labor(replace_underscores(line.task_type), line.area_sqm,
                         q.city.v, line.complexity_factors, None, FALSE)

\* C23: the hours a line item of a computed Quote shows are the hours that
\* were charged: the line's labor hours are the task's final hours after
\* complexity, and its labor cost is those final hours times the hourly
\* rate, also when complexity factors apply.
C23_LineShowsChargedHours ==
    QuoteComputed =>
        \A i \in DOMAIN last.result.quote.tasks :
            /\ last.result.quote.tasks[i].labor_hours
                   = LineLabor(last.result.quote,
                               last.result.quote.tasks[i]).final_hours
            /\ last.result.quote.tasks[i].labor_cost
                   = LineLabor(last.result.quote,
                               last.result.quote.tasks[i]).base_labor_cost

-----------------------------------------------------------------------------
(* Materials the catalog lacks, checked under SpecMissing *)

\* the catalog holds the material of a requirement
InCatalog(need) == need.material_id \in DOMAIN materials

\* the requirements of a line item's task that the catalog can serve
Served(line) ==
    SelectSeq(engine_task_definitions[line.task_type].materials, InCatalog)

\* the line item of a task has a material that the catalog lacks
HasDrop(line) ==
    Len(Served(line)) < Len(engine_task_definitions[line.task_type].materials)

\* a missing material is not fatal: the Quote is computed, every
\* recognized task has its line item with its labor, and the line lists the
\* materials the catalog holds, in order, and their total
MissingMaterialDropped ==
    LET requested == last.args.response.data.tasks.v
        priced    == SelectSeq(requested, Recognized)
        q         == last.result.quote
    IN  /\ last.result.caught = None
        /\ q.parsing_method # "fallback"
        /\ Len(q.tasks) = Len(priced)
        /\ \A i \in DOMAIN q.tasks :
              /\ q.tasks[i].task_type = priced[i].type
              /\ q.tasks[i].labor_cost
                     = LineLabor(q, q.tasks[i]).base_labor_cost
              /\ Len(q.tasks[i].materials) = Len(Served(q.tasks[i]))
              /\ \A j \in DOMAIN q.tasks[i].materials :
                    q.tasks[i].materials[j].name
                        = materials[Served(q.tasks[i])[j].material_id].name
              /\ q.tasks[i].materials_cost
                     = SumOf(q.tasks[i].materials, "total_cost")

\* the fields in which a line item or the Quote could hold a record of a
\* dropped material: any beyond those of a complete line item or Quote, or
\* a material entry that reports an error
DropRecorded(q, line) ==
    \/ ~IsQuote(q)
    \/ DOMAIN line # {"task_type", "description", "area_sqm", "labor_hours",
                      "labor_cost", "materials", "materials_cost",
                      "skill_required", "complexity_factors"}
    \/ \E j \in DOMAIN line.materials :
          DOMAIN line.materials[j]
              # {"name", "quantity", "unit", "unit_cost", "total_cost"}

\* C24 as stated: when a material a task needs is missing from the catalog
\* the failure is not caller-fatal: the material line is dropped, the line
\* item is still produced with its labor and its remaining materials, the
\* Quote is not the fallback, and the drop is recorded as a partial-failure
\* annotation.
C24_MissingMaterialAnnotated ==
    (SoundOrder /\ last.args.response.data.tasks # Absent) =>
        /\ MissingMaterialDropped
        /\ \A i \in DOMAIN last.result.quote.tasks :
              HasDrop(last.result.quote.tasks[i]) =>
                  DropRecorded(last.result.quote, last.result.quote.tasks[i])

\* C24 as amended: when a material a task needs is missing from the catalog
\* the failure is not caller-fatal: the material line is dropped, the line
\* item is still produced with its labor and its remaining materials, the
\* Quote is not the fallback, and nothing in the Quote records the drop.
C24_MissingMaterialDroppedSilently ==
    (SoundOrder /\ last.args.response.data.tasks # Absent) =>
        /\ MissingMaterialDropped
        /\ \A i \in DOMAIN last.result.quote.tasks :
              ~DropRecorded(last.result.quote, last.result.quote.tasks[i])

\* C24 witness: after a load that left tile_adhesive alone in the catalog, a
\* computed Quote whose tiling line has the adhesive as its only material
C24_Witness ==
    /\ QuoteComputed
    /\ "ceramic_floor_basic" \notin DOMAIN materials
    /\ \E i \in DOMAIN last.result.quote.tasks :
          /\ last.result.quote.tasks[i].task_type = "tiling"
          /\ HasDrop(last.result.quote.tasks[i])
          /\ Len(last.result.quote.tasks[i].materials) = 1
          /\ last.result.quote.tasks[i].materials_cost > 0
          /\ last.result.quote.tasks[i].labor_cost > 0

-----------------------------------------------------------------------------
(* The detailed VAT path, checked under SpecDetailedVat *)

\* the tier of calculate_detailed_vat that `last` or, after the validator
\* ran, `prev` holds
Resolved == IF last.op = "calculate_detailed_vat" THEN last ELSE prev

DetailedVatReturned ==
    /\ last # Idle
    /\ Resolved # Idle
    /\ Resolved.op = "calculate_detailed_vat"

\* the compliance documents of each tier, by its description
TierDocuments(description) ==
    CASE description = "Social housing improvements (5.5%)" ->
             <<"Social housing certification", "Qualified contractor">>
      [] description = "Energy efficiency improvements (5.5%)" ->
             <<"Building age certificate (>2 years)",
               "Energy efficiency certifications for materials",
               "RGE certified contractor required",
               "Customer declaration of building use">>
      [] description = "Renovation work on building >2 years (10%)" ->
             <<"Building age certificate (>2 years)",
               "VAT-registered contractor required",
               "Detailed materials/labor breakdown",
               "Customer declaration of building use">>
      [] OTHER -> <<"Standard VAT invoice required">>

\* C25: the detailed VAT path resolves exactly one of four tiers for every
\* work context and returns that tier's compliance documents.  Property
\* type comes first, then work type, then building age and the
\* energy-features flag: social housing gives 5.5%; otherwise a commercial
\* property or new-construction work gives 20%; otherwise energy renovation
\* (work type or flag) on a building aged two years or more gives 5.5%;
\* otherwise renovation of a residential property aged two years or more
\* gives 10%.
C25_DetailedVatTiers ==
    DetailedVatReturned =>
        LET c   == Resolved.args.work_context
            r   == Resolved.result
            w   == ContextGet(c, "work_type", "renovation")
            p   == ContextGet(c, "property_type", "residential_primary")
            age == ContextGet(c, "building_age_years", 5)
            e   == \/ w = "energy_renovation"
                   \/ ContextGet(c, "has_energy_features", FALSE)
        IN  /\ r.vat_description
                   \in {"Social housing improvements (5.5%)",
                        "Energy efficiency improvements (5.5%)",
                        "Renovation work on building >2 years (10%)",
                        "Standard VAT rate (20%)"}
            /\ r.compliance_requirements = TierDocuments(r.vat_description)
            /\ r.vat_rate
                   = IF p = "social_housing" THEN 55
                     ELSE IF p = "commercial" \/ w = "new_construction"
                     THEN 200
                     ELSE IF e /\ age >= 2 THEN 55
                     ELSE IF age >= 2 THEN 100
                     ELSE r.vat_rate

\* C29: every rate the detailed VAT path assigns is consistent with the
\* validator: for every work context that gives a building age, passing the
\* resolved rate and the same building age to validate_vat_compliance
\* reports compliant, with no issues.
C29_ResolvedRateValidates ==
    (/\ last.op = "validate_vat_compliance"
     /\ last.args.building_age_years # Absent) =>
        /\ last.result.compliant
        /\ last.result.compliance_issues = <<>>

-----------------------------------------------------------------------------
(* Material costing, checked under SpecCost *)

\* base cost x regional material multiplier of the material costed by
\* `last`, in 1/1000000 EUR
ExactUnitCost ==
    materials[last.args.material_id].base_cost
        * ListedOrOne(regional_multipliers, last.args.region)

\* unitCost = base cost x regional multiplier, baseCost = unitCost x
\* quantity, margin = baseCost x supplier margin, totalCost = baseCost +
\* margin, the last three rounded to 2 decimal places from the unrounded
\* amounts
CostingSteps ==
    LET r        == last.result
        m        == materials[last.args.material_id]
        \* EUR over 10^9
        baseCost == Times(Digits(ExactUnitCost), last.args.quantity)
        \* EUR over 10^11
        margin   == Times(baseCost, m.supplier_margin)
    IN  /\ r.unit_cost * 100 = ExactUnitCost
        /\ r.base_cost = Round(baseCost, 9, 2)
        /\ r.margin = Round(margin, 11, 2)
        /\ r.total_cost = Round(Plus(Times(baseCost, 100), margin), 11, 2)

\* C26 as stated: material costing returns unitCost = base cost x regional
\* material multiplier, baseCost = unitCost x quantity, margin = baseCost x
\* supplier margin and totalCost = baseCost + margin, and every monetary
\* output it returns, the unit cost included, is rounded to 2 decimal
\* places.
C26_CostingAllRounded ==
    CostPriced =>
        /\ CostingSteps
        /\ last.result.unit_cost % 100 = 0

\* C26 as amended: material costing returns unitCost = base cost x
\* regional material multiplier, baseCost = unitCost x quantity, margin =
\* baseCost x supplier margin and totalCost = baseCost + margin; baseCost,
\* margin and totalCost are rounded to 2 decimal places, unitCost is
\* returned as the unrounded product.
C26_CostingUnitCostUnrounded ==
    CostPriced => CostingSteps

\* C26 witness: a quantity of a material whose unit cost in the city is
\* not a whole number of cents, costed with a margin
C26_Witness ==
    /\ CostPriced
    /\ last.result.unit_cost % 100 # 0
    /\ last.args.quantity > 1000
    /\ last.result.margin > 0
    /\ last.result.total_cost = last.result.base_cost + last.result.margin

-----------------------------------------------------------------------------
(* Accumulation of material costs, checked under Spec *)

\* the unrounded total of one required material of a line item: base cost
\* x regional multiplier x (area x quantity per m2) x (1 + supplier
\* margin), in EUR over 10^11
ExactMaterialTotal(need, q, line) ==
    Times(Times(Digits(materials[need.material_id].base_cost
                           * ListedOrOne(regional_multipliers, q.city.v)),
                line.area_sqm * need.qty_per_sqm),
          100 + materials[need.material_id].supplier_margin)

\* the unrounded totals of the required materials, summed
RECURSIVE ExactSum(_, _, _)
ExactSum(needs, q, line) ==
    IF needs = <<>> THEN <<>>
    ELSE Plus(ExactMaterialTotal(Head(needs), q, line),
              ExactSum(Tail(needs), q, line))

\* the totals of the required materials, each rounded to cents, summed
RECURSIVE RoundedSum(_, _, _)
RoundedSum(needs, q, line) ==
    IF needs = <<>> THEN 0
    ELSE Round(ExactMaterialTotal(Head(needs), q, line), 11, 2)
         + RoundedSum(Tail(needs), q, line)

\* the unrounded material totals of all line items, summed
RECURSIVE ExactSubtotal(_, _)
ExactSubtotal(lines, q) ==
    IF lines = <<>> THEN <<>>
    ELSE Plus(ExactSum(Served(Head(lines)), q, Head(lines)),
              ExactSubtotal(Tail(lines), q))

\* C27 as stated: accumulation uses unrounded values: the materials cost of
\* a task and the materials subtotal of the Quote are sums of the unrounded
\* per-material totals, rounded once at the end, so each equals the
\* 2-decimal rounding of the exact sum.
C27_SumsOfUnroundedTotals ==
    QuoteComputed =>
        /\ \A i \in DOMAIN last.result.quote.tasks :
              last.result.quote.tasks[i].materials_cost
                  = Round(ExactSum(Served(last.result.quote.tasks[i]),
                                   last.result.quote,
                                   last.result.quote.tasks[i]), 11, 2)
        /\ last.result.quote.subtotal_materials
               = Round(ExactSubtotal(last.result.quote.tasks,
                                     last.result.quote), 11, 2)

\* C27 as amended: the materials cost of a task is the sum of its
\* per-material totals after each was rounded to 2 decimal places, and the
\* materials subtotal of the Quote is the sum of the tasks' materials
\* costs; it may differ from the rounding of the exact sum.
C27_SumsOfRoundedTotals ==
    QuoteComputed =>
        /\ \A i \in DOMAIN last.result.quote.tasks :
              last.result.quote.tasks[i].materials_cost
                  = RoundedSum(Served(last.result.quote.tasks[i]),
                               last.result.quote,
                               last.result.quote.tasks[i])
        /\ last.result.quote.subtotal_materials
               = SumOf(last.result.quote.tasks, "materials_cost")

\* C27 witness: a computed Quote with a line of several materials whose
\* materials cost is not the rounding of the exact sum
C27_Witness ==
    /\ QuoteComputed
    /\ \E i \in DOMAIN last.result.quote.tasks :
          /\ Len(last.result.quote.tasks[i].materials) > 1
          /\ last.result.quote.tasks[i].materials_cost
                 # Round(ExactSum(Served(last.result.quote.tasks[i]),
                                  last.result.quote,
                                  last.result.quote.tasks[i]), 11, 2)

-----------------------------------------------------------------------------
(* The VAT rate of generate_quote, checked under Spec *)

\* a line item whose text holds the word "energy": its task type, its
\* description, its skill level, a complexity tag, a material name or unit
LineNamesEnergy(line) ==
    \/ ContainsEnergy(line.task_type)
    \/ ContainsEnergy(line.description)
    \/ ContainsEnergy(line.skill_required)
    \/ \E i \in DOMAIN line.complexity_factors :
          ContainsEnergy(line.complexity_factors[i])
    \/ \E i \in DOMAIN line.materials :
          \/ ContainsEnergy(line.materials[i].name)
          \/ ContainsEnergy(line.materials[i].unit)

\* the VAT and the total of the Quote are those of the rate (per mille)
VatAtRate(q, rate) ==
    /\ q.vat_amount \in NearestCents(SubtotalWithMargin(q), rate)
    /\ q.total_price \in NearestCents(SubtotalWithMargin(q), 1000 + rate)

\* C28 as stated: on the successful path the VAT rate of generate_quote is
\* never 20%, and it is 10% for every work order whose tasks are of the six
\* ordinary task types: the free-text description, the complexity tags and
\* the material names of a line item cannot change the rate.
C28_OrdinaryTasksAtTenPercent ==
    QuoteComputed => VatAtRate(last.result.quote, 100)

\* C28 as amended: on the successful path the VAT rate of generate_quote is
\* never 20% (the building age is fixed at 5 years): it is 5.5% when the
\* text of some line item (task type, description, skill level, complexity
\* tags, material names and units) contains the word "energy", and 10%
\* otherwise; so the free-text description of a task of an ordinary type
\* can change the rate.
C28_EnergyWordDecidesRate ==
    QuoteComputed =>
        /\ VatAtRate(last.result.quote,
                     IF \E i \in DOMAIN last.result.quote.tasks :
                           LineNamesEnergy(last.result.quote.tasks[i])
                     THEN 55 ELSE 100)
        /\ SubtotalWithMargin(last.result.quote) > 0 =>
               ~VatAtRate(last.result.quote, 200)

\* C28 witness: a computed Quote with an electrical task described as
\* energy-efficient, taxed at 5.5% and not at 10%
C28_Witness ==
    /\ QuoteComputed
    /\ \E i \in DOMAIN last.result.quote.tasks :
          /\ last.result.quote.tasks[i].task_type = "electrical"
          /\ ContainsEnergy(last.result.quote.tasks[i].description)
    /\ VatAtRate(last.result.quote, 55)
    /\ ~VatAtRate(last.result.quote, 100)

-----------------------------------------------------------------------------
(* A bulk load that fails, checked under SpecCatalog *)

\* C30: a bulk load that fails (unreadable file, malformed entry) reports
\* failure and leaves the materials and the regional multipliers of the
\* catalog exactly as they were before the call: the catalog is never left
\* empty or partially loaded.
C30_FailedLoadLeavesCatalog ==
    (last # Idle /\ last.op = "load_from_file" /\ last.result = FALSE) =>
        /\ materials = last.before.materials
        /\ regional_multipliers = last.before.regional_multipliers
====
